---- MODULE Spec2Model ----
(***************************************************************************)
(* Model of libpod/networking_slirp4netns.go: the launch of the slirp4netns *)
(* helper (setupSlirp4netns), the background task that disables and         *)
(* restores the accept_dad sysctl, the readiness barrier (waitForSync),     *)
(* and the two port-forwarding backends (setupRootlessPortMappingViaSlirp,  *)
(* setupRootlessPortMappingViaRLK).                                         *)
(*                                                                         *)
(* The launcher, the DAD task, the liveness monitor and the helper          *)
(* processes are separate sequential processes; every access to shared      *)
(* state (the sysctl, a WaitGroup, a pipe, a channel, a process status)     *)
(* is one step.                                                             *)
(***************************************************************************)
EXTENDS Integers, Sequences, FiniteSets, TLC

\* ------------------------------------------------------------------ bounds

\* Lines a helper may write to its log file.
MaxLog == 1

\* pidWaitTimeout / interval: the iterations of the liveness monitor's loop and
\* the ceiling of WaitForFile, counted in intervals (60 s / 25 ms in the code).
PidWaitIntervals == 2

\* Port mappings of a container.
MaxMappings == 2

\* Expired read deadlines that waitForSync's history counts (it saturates).
MaxPolls == 2

\* Largest range of the port mappings whose expansion is followed alone.
MaxRange == 3

\* Most networks in a network status, most addresses of one network, and the
\* number of calls of getRootlessPortChildIP on the same container.
MaxNetworks == 2
MaxSubnets == 2
MaxRuns == 2

\* Longest list of slirp4netns network options of the engine configuration.
MaxGlobalOptions == 1

\* Longest list of slirp4netns network options of a container.
MaxOptions == 2

\* Longest answer of the rootlessport server to a reload request, in bytes.
MaxReply == 3

\* ------------------------------------------------------------------ values

Slirp == "slirp4netns"
Rlk   == "rootlessport"
Helpers == {Slirp, Rlk}

\* uint16 arithmetic of the port expansion.
PortMod == 65536

Min(a, b) == IF a < b THEN a ELSE b

\* The result of a successful call (a nil error).
Nil == <<>>

\* An error value: its kind, the program it names, and its detail.
Err(kind, prog, detail) == <<kind, prog, detail>>

\* Contents of the accept_dad sysctl file; "absent" when the file does not exist.
SysctlValues == {"1"}

\* netOptions.cidr as parseSlirp4netnsNetworkOptions leaves it: empty, or a
\* string that net.ParseCIDR accepted as an IPv4 prefix.
ValidCidrs == {"10.42.0.0/24"}
defaultSlirp4netnsSubnet == "defaultSlirp4netnsSubnet"

\* net.ParseCIDR(netOptions.cidr) succeeded and the address is IPv4.
CidrOk(c) == c \in ValidCidrs

\* Port mappings as ctr.convertPortMappings() returns them. Protocol is the
\* comma-separated string, one element per name or comma.
MappingSet ==
    { [Protocol |-> <<"tcp", ",", "udp">>, HostIP |-> "",
       HostPort |-> 8080, ContainerPort |-> 80, Range |-> 2],
      [Protocol |-> <<"udp">>, HostIP |-> "127.0.0.1",
       HostPort |-> 5353, ContainerPort |-> 53, Range |-> 1] }

MappingSeqs == UNION { [1..n -> MappingSet] : n \in 1..MaxMappings }

\* One tcp mapping whose ports start low or at the top of uint16.
RangeMappings ==
    { << [Protocol |-> <<"tcp">>, HostIP |-> "", HostPort |-> h,
          ContainerPort |-> c, Range |-> n] >> :
        h \in {8080, PortMod - 1}, c \in {80, PortMod - 2}, n \in 1..MaxRange }

\* The port mappings of the whole setup: none, or one udp port.
SetupMappings ==
    { <<>>,
      << [Protocol |-> <<"udp">>, HostIP |-> "127.0.0.1",
          HostPort |-> 5353, ContainerPort |-> 53, Range |-> 1] >> }

\* ------------------------------------------------------------------ state

VARIABLES
    netOptions,        \* enableIPv6, isSlirpHostForward, cidr
    portMappings,      \* ctr.config.PortMappings, as ctr.convertPortMappings() returns them
    sysctl0,           \* the sysctl's content before setup started
    sysctl,            \* the sysctl's content now
    pc,                \* position of setupSlirp4netns and its callees
    result,            \* the error setupSlirp4netns returns
    sysctlAtStart,     \* the sysctl's content when cmd.Start was called
    subnet,            \* ctr.slirp4netnsSubnet
    netnsReadyWg,      \* counter of netnsReadyWg
    slirpReadyWg,      \* counter of slirpReadyWg
    dadPc,             \* position of the background DAD task
    orgValue,          \* the value the DAD task read
    dadErr,            \* the error the namespace callback returns
    dadWarned,         \* logrus.Warnf was called by the DAD task
    dadOps,            \* the file operations the DAD task performed
    proc,              \* state of each helper process
    pipe,              \* the helper's sync pipe: "empty", "byte", "read"
    logFile,           \* lines in the helper's log file
    logOff,            \* offset of the log file's descriptor
    stdout,            \* rootlessport's captured standard output
    sockFile,          \* the api socket file exists
    wfsCmd,            \* the helper waitForSync is waiting for
    wfsErr,            \* what waitForSync returned, per helper
    wfsObs,            \* what waitForSync observed on its way out, per helper
    polls,             \* deadlines expired in the running waitForSync
    expiredAfterDeath, \* deadlines expired after the child's death
    reaper,            \* servicereaper.AddPID calls, per helper
    released,          \* cmd.Process.Release calls, per helper
    chWait,            \* the liveness channel: "nil", "open", "closed"
    monPc,             \* position of the liveness monitor
    monI,              \* the monitor's loop variable, in intervals
    monSleep,          \* intervals left of the monitor's time.Sleep
    monBroke,          \* the monitor left its loop on a Wait4 error
    wffLeft,           \* intervals left until WaitForFile's ceiling
    wffRes,            \* how WaitForFile returned
    exitDuringWait,    \* the helper exited while WaitForFile was waiting
    mIdx, pIdx, off,   \* the three loop variables of the port expansion
    issued,            \* the add_hostfwd commands sent
    reload,            \* a call of reloadRootlessRLKPortMapping
    args,              \* a call of createBasicSlirp4netnsCmdArgs
    addr,              \* a call of addToIP
    prep,              \* setupSlirp4netns before the IPv6 block
    parse,             \* a call of parseSlirp4netnsNetworkOptions
    childIP            \* a call of getRootlessPortChildIP

\* havePortMapping := len(ctr.config.PortMappings) > 0
havePortMapping == Len(portMappings) > 0

inVars   == <<netOptions, portMappings, sysctl0>>
wgVars   == <<netnsReadyWg, slirpReadyWg>>
dadVars  == <<dadPc, orgValue, dadErr, dadWarned, dadOps>>
procVars == <<proc, pipe, logFile, logOff, stdout, sockFile, exitDuringWait>>
wfsVars  == <<wfsCmd, wfsErr, wfsObs, polls, expiredAfterDeath>>
reapVars == <<reaper, released>>
monVars  == <<chWait, monPc, monI, monSleep, monBroke>>
timeVars == <<wffLeft, wffRes>>
fwdVars  == <<mIdx, pIdx, off, issued>>
retVars  == <<result, sysctlAtStart, subnet>>

\* The calls of the functions that are followed on their own.
fnVars   == <<reload, args, addr, prep, parse, childIP>>

\* The state of setupSlirp4netns from the IPv6 block on.
setupVars == <<inVars, sysctl, pc, retVars, wgVars, dadVars, procVars, wfsVars,
               reapVars, monVars, timeVars, fwdVars>>

vars == <<setupVars, fnVars>>

\* No call of the function is in progress.
NoCall == [pc |-> "none"]

\* Nothing has been started: no DAD task, no helper, no monitor, no command.
SetupIdle ==
    /\ result = Nil
    /\ netnsReadyWg = 0
    /\ slirpReadyWg = 0
    /\ dadPc = "unstarted"
    /\ orgValue = "none"
    /\ dadErr = "nil"
    /\ dadWarned = FALSE
    /\ dadOps = <<>>
    /\ logFile = [h \in Helpers |-> <<>>]
    /\ logOff = [h \in Helpers |-> 0]
    /\ stdout = <<>>
    /\ sockFile = FALSE
    /\ wfsErr = [h \in Helpers |-> Nil]
    /\ polls = 0
    /\ expiredAfterDeath = 0
    /\ reaper = [h \in Helpers |-> 0]
    /\ released = [h \in Helpers |-> 0]
    /\ chWait = "nil"
    /\ monPc = "unstarted"
    /\ monI = 0
    /\ monSleep = 0
    /\ monBroke = FALSE
    /\ wffLeft = 0
    /\ wffRes = "none"
    /\ exitDuringWait = FALSE
    /\ mIdx = 1
    /\ pIdx = 1
    /\ off = 0
    /\ issued = <<>>

\* Nothing has been started and no other function is being called.
Idle ==
    /\ SetupIdle
    /\ reload = NoCall
    /\ args = NoCall
    /\ addr = NoCall
    /\ prep = NoCall
    /\ parse = NoCall
    /\ childIP = NoCall

\* setupSlirp4netns is called: the options are parsed, the command is built
\* and the log file is open.
Init ==
    /\ netOptions \in [enableIPv6: BOOLEAN, isSlirpHostForward: BOOLEAN,
                       cidr: {""} \cup ValidCidrs]
    /\ portMappings \in SetupMappings
    /\ sysctl0 \in SysctlValues \cup {"absent"}
    /\ sysctl = sysctl0
    /\ pc = "setup"
    /\ sysctlAtStart = "none"
    /\ subnet = "none"
    /\ proc = [h \in Helpers |-> "unstarted"]
    /\ pipe = [h \in Helpers |-> "empty"]
    /\ wfsCmd = "none"
    /\ wfsObs = [h \in Helpers |-> <<>>]
    /\ Idle

\* waitForSync is called for a helper that has just been started: for
\* slirp4netns by setupSlirp4netns, for rootlessport by
\* setupRootlessPortMappingViaRLK after slirp4netns has become ready. IPv6 is
\* off, so no DAD task runs beside it.
WfsInit ==
    /\ netOptions = [enableIPv6 |-> FALSE, isSlirpHostForward |-> FALSE, cidr |-> ""]
    /\ sysctl0 \in SysctlValues \cup {"absent"}
    /\ sysctl = sysctl0
    /\ sysctlAtStart = sysctl0
    /\ pc = "wfs_deadline"
    /\ wfsCmd \in Helpers
    /\ portMappings \in IF wfsCmd = Rlk THEN SetupMappings \ {<<>>} ELSE SetupMappings
    /\ subnet = IF wfsCmd = Rlk THEN defaultSlirp4netnsSubnet ELSE "none"
    /\ proc = [h \in Helpers |-> IF h = Slirp \/ h = wfsCmd THEN "running"
                                 ELSE "unstarted"]
    /\ pipe = [h \in Helpers |-> IF h = Slirp /\ wfsCmd = Rlk THEN "read" ELSE "empty"]
    /\ wfsObs = [h \in Helpers |-> IF h = Slirp /\ wfsCmd = Rlk THEN <<"data">>
                                   ELSE <<>>]
    /\ Idle

\* setupRootlessPortMappingViaSlirp is called: slirp4netns is running and has
\* become ready, and the container has port mappings. IPv6 is off, so no DAD
\* task runs beside it.
FwdInit ==
    /\ netOptions = [enableIPv6 |-> FALSE, isSlirpHostForward |-> TRUE, cidr |-> ""]
    /\ portMappings \in MappingSeqs
    /\ sysctl0 \in SysctlValues \cup {"absent"}
    /\ sysctl = sysctl0
    /\ sysctlAtStart = sysctl0
    /\ pc = "fwd_begin"
    /\ subnet = defaultSlirp4netnsSubnet
    /\ proc = [h \in Helpers |-> IF h = Slirp THEN "running" ELSE "unstarted"]
    /\ pipe = [h \in Helpers |-> IF h = Slirp THEN "read" ELSE "empty"]
    /\ wfsCmd = Slirp
    /\ wfsObs = [h \in Helpers |-> IF h = Slirp THEN <<"data">> ELSE <<>>]
    /\ Idle

\* setupRootlessPortMappingViaSlirp is called for one mapping with a range.
RangeInit ==
    /\ netOptions = [enableIPv6 |-> FALSE, isSlirpHostForward |-> TRUE, cidr |-> ""]
    /\ portMappings \in RangeMappings
    /\ sysctl0 \in SysctlValues \cup {"absent"}
    /\ sysctl = sysctl0
    /\ sysctlAtStart = sysctl0
    /\ pc = "fwd_begin"
    /\ subnet = defaultSlirp4netnsSubnet
    /\ proc = [h \in Helpers |-> IF h = Slirp THEN "running" ELSE "unstarted"]
    /\ pipe = [h \in Helpers |-> IF h = Slirp THEN "read" ELSE "empty"]
    /\ wfsCmd = Slirp
    /\ wfsObs = [h \in Helpers |-> IF h = Slirp THEN <<"data">> ELSE <<>>]
    /\ Idle

\* ------------------------------------------------- the background DAD task

\* netnsReadyWg.Wait() / slirpReadyWg.Wait(): return once the counter is zero.
\* Faulty variants: a Wait that does not wait.
NetnsReadyNoWait == TRUE
SlirpReadyNoWait == TRUE

NetnsReadyWait == netnsReadyWg = 0
SlirpReadyWait == slirpReadyWg = 0

\* ns.WithNetNSPath enters the namespace before it runs the callback; when
\* that fails the callback never runs.
DadEnterNetNS ==
    /\ dadPc = "nsenter"
    /\ \E ok \in BOOLEAN :
         IF ok THEN /\ dadPc' = "read"
                    /\ dadErr' = dadErr
               ELSE /\ dadPc' = "warn"
                    /\ dadErr' = "nsenter"
    /\ UNCHANGED <<inVars, fnVars, sysctl, pc, retVars, wgVars, orgValue, dadWarned,
                   dadOps, procVars, wfsVars, reapVars, monVars, timeVars, fwdVars>>

\* orgValue, err := os.ReadFile(ipv6ConfDefaultAcceptDadSysctl)
DadReadSysctl ==
    /\ dadPc = "read"
    /\ \E ok \in BOOLEAN :
         LET res == IF sysctl = "absent" THEN "ErrNotExist"
                    ELSE IF ok THEN "nil" ELSE "readerr"
         IN /\ dadErr' = res
            /\ dadOps' = Append(dadOps, <<"read", res, sysctl>>)
            /\ orgValue' = IF res = "nil" THEN sysctl ELSE orgValue
            /\ dadPc' = IF res = "nil" THEN "write0" ELSE "readfailed"
    /\ UNCHANGED <<inVars, fnVars, sysctl, pc, retVars, wgVars, dadWarned,
                   procVars, wfsVars, reapVars, monVars, timeVars, fwdVars>>

\* Faulty variant: a missing file is treated as any other read error.
DadReadFailedWarns ==
    /\ dadPc = "readfailed"
    /\ netnsReadyWg' = netnsReadyWg - 1
    /\ dadErr' = dadErr
    /\ dadPc' = "warn"
    /\ UNCHANGED <<inVars, fnVars, sysctl, pc, retVars, slirpReadyWg, orgValue, dadWarned,
                   dadOps, procVars, wfsVars, reapVars, monVars, timeVars, fwdVars>>

\* The read failed: netnsReadyWg.Done(), then nil for a missing file and the
\* error otherwise.
DadReadFailed ==
    /\ dadPc = "readfailed"
    /\ netnsReadyWg' = netnsReadyWg - 1
    /\ IF dadErr = "ErrNotExist"
       THEN /\ dadErr' = "nil"
            /\ dadPc' = "exit"
       ELSE /\ dadErr' = dadErr
            /\ dadPc' = "warn"
    /\ UNCHANGED <<inVars, fnVars, sysctl, pc, retVars, slirpReadyWg, orgValue, dadWarned,
                   dadOps, procVars, wfsVars, reapVars, monVars, timeVars, fwdVars>>

\* err = os.WriteFile(ipv6ConfDefaultAcceptDadSysctl, []byte("0"), 0644).
\* A write the kernel rejects leaves the sysctl as it was.
DadWriteZero ==
    /\ dadPc = "write0"
    /\ \E ok \in BOOLEAN :
         /\ sysctl' = IF ok THEN "0" ELSE sysctl
         /\ dadErr' = IF ok THEN "nil" ELSE "write0err"
         /\ dadOps' = Append(dadOps, <<"write", dadErr', "0">>)
    /\ dadPc' = "written"
    /\ UNCHANGED <<inVars, fnVars, pc, retVars, wgVars, orgValue, dadWarned,
                   procVars, wfsVars, reapVars, monVars, timeVars, fwdVars>>

\* netnsReadyWg.Done() after the write, whatever its outcome.
DadNetnsReadyDone ==
    /\ dadPc = "written"
    /\ netnsReadyWg' = netnsReadyWg - 1
    /\ dadPc' = IF dadErr = "nil" THEN "waitslirp" ELSE "warn"
    /\ UNCHANGED <<inVars, fnVars, sysctl, pc, retVars, slirpReadyWg, orgValue, dadErr,
                   dadWarned, dadOps, procVars, wfsVars, reapVars, monVars,
                   timeVars, fwdVars>>

\* slirpReadyWg.Wait()
DadWaitSlirp ==
    /\ dadPc = "waitslirp"
    /\ SlirpReadyWait
    /\ dadPc' = "restore"
    /\ UNCHANGED <<inVars, fnVars, sysctl, pc, retVars, wgVars, orgValue, dadErr, dadWarned,
                   dadOps, procVars, wfsVars, reapVars, monVars, timeVars, fwdVars>>

\* return os.WriteFile(ipv6ConfDefaultAcceptDadSysctl, orgValue, 0644)
DadRestore ==
    /\ dadPc = "restore"
    /\ \E ok \in BOOLEAN :
         /\ sysctl' = IF ok THEN orgValue ELSE sysctl
         /\ dadErr' = IF ok THEN "nil" ELSE "restoreerr"
         /\ dadOps' = Append(dadOps, <<"write", dadErr', orgValue>>)
         /\ dadPc' = IF ok THEN "exit" ELSE "warn"
    /\ UNCHANGED <<inVars, fnVars, pc, retVars, wgVars, orgValue, dadWarned,
                   procVars, wfsVars, reapVars, monVars, timeVars, fwdVars>>

\* if err != nil { logrus.Warnf(...) }
DadWarn ==
    /\ dadPc = "warn"
    /\ dadWarned' = TRUE
    /\ dadPc' = "exit"
    /\ UNCHANGED <<inVars, fnVars, sysctl, pc, retVars, wgVars, orgValue, dadErr,
                   dadOps, procVars, wfsVars, reapVars, monVars, timeVars, fwdVars>>

DadTask ==
    \/ DadEnterNetNS
    \/ DadReadSysctl
    \/ DadReadFailed
    \/ DadWriteZero
    \/ DadNetnsReadyDone
    \/ DadWaitSlirp
    \/ DadRestore
    \/ DadWarn

\* ------------------------------------------------------------ waitForSync

WfsPcs == {"wfs_deadline", "wfs_read", "wfs_wait4", "wfs_seek", "wfs_readall"}

Dead(h) == proc[h] \in {"exited", "signaled"}

\* waitForSync returns err to the call site of the helper it waited for.
WfsReturn(err, obs) ==
    /\ wfsErr' = [wfsErr EXCEPT ![wfsCmd] = err]
    /\ wfsObs' = [wfsObs EXCEPT ![wfsCmd] = Append(@, obs)]
    /\ polls' = 0
    /\ expiredAfterDeath' = 0
    /\ pc' = IF wfsCmd = Slirp THEN "slirp_synced" ELSE "rlk_synced"

\* syncR.SetDeadline(time.Now().Add(timeout))
WfsSetDeadline ==
    /\ pc = "wfs_deadline"
    /\ \E ok \in BOOLEAN :
         IF ok THEN /\ pc' = "wfs_read"
                    /\ UNCHANGED <<wfsErr, wfsObs, polls, expiredAfterDeath>>
               ELSE WfsReturn(Err("setting pipe timeout", wfsCmd, <<>>), "ioerr")
    /\ UNCHANGED <<inVars, fnVars, sysctl, retVars, wgVars, dadVars, procVars, wfsCmd,
                   reapVars, monVars, timeVars, fwdVars>>

\* Faulty variant: the wait gives up after MaxPolls deadlines.
WfsReadOverallTimeout ==
    /\ pc = "wfs_read"
    /\ \/ /\ pipe[wfsCmd] = "byte"
          /\ pipe' = [pipe EXCEPT ![wfsCmd] = "read"]
          /\ WfsReturn(Nil, "data")
       \/ /\ pipe[wfsCmd] # "byte"
          /\ polls < MaxPolls
          /\ polls' = polls + 1
          /\ expiredAfterDeath' = expiredAfterDeath + (IF Dead(wfsCmd) THEN 1 ELSE 0)
          /\ pc' = "wfs_wait4"
          /\ UNCHANGED <<pipe, wfsErr, wfsObs>>
       \/ /\ pipe[wfsCmd] # "byte"
          /\ polls = MaxPolls
          /\ WfsReturn(Err("timed out", wfsCmd, <<>>), "timeout")
          /\ UNCHANGED pipe
    /\ UNCHANGED <<inVars, fnVars, sysctl, retVars, wgVars, dadVars, proc, logFile, logOff,
                   stdout, sockFile, exitDuringWait, wfsCmd, reapVars, monVars,
                   timeVars, fwdVars>>

\* syncR.Read(b): a byte, the deadline, or another error.
WfsRead ==
    /\ pc = "wfs_read"
    /\ \/ /\ pipe[wfsCmd] = "byte"
          /\ pipe' = [pipe EXCEPT ![wfsCmd] = "read"]
          /\ WfsReturn(Nil, "data")
       \/ /\ pipe[wfsCmd] # "byte"
          /\ polls' = Min(polls + 1, MaxPolls)
          /\ expiredAfterDeath' = expiredAfterDeath + (IF Dead(wfsCmd) THEN 1 ELSE 0)
          /\ pc' = "wfs_wait4"
          /\ UNCHANGED <<pipe, wfsErr, wfsObs>>
       \/ /\ WfsReturn(Err("failed to read from sync pipe", wfsCmd, <<>>), "ioerr")
          /\ UNCHANGED pipe
    /\ UNCHANGED <<inVars, fnVars, sysctl, retVars, wgVars, dadVars, proc, logFile, logOff,
                   stdout, sockFile, exitDuringWait, wfsCmd, reapVars, monVars,
                   timeVars, fwdVars>>

\* syscall.Wait4(cmd.Process.Pid, &status, syscall.WNOHANG, nil) and the
\* branches on its result. Without WUNTRACED a reported status is an exit or
\* a signal, so the final continue is not reached.
WfsWait4 ==
    /\ pc = "wfs_wait4"
    /\ \/ /\ WfsReturn(Err("failed to read process status", wfsCmd, <<>>), "ioerr")
          /\ UNCHANGED proc
       \/ /\ proc[wfsCmd] = "running"
          /\ pc' = "wfs_deadline"
          /\ UNCHANGED <<proc, wfsErr, wfsObs, polls, expiredAfterDeath>>
       \/ /\ proc[wfsCmd] = "exited"
          /\ proc' = [proc EXCEPT ![wfsCmd] = "reaped"]
          /\ wfsObs' = [wfsObs EXCEPT ![wfsCmd] = Append(@, "exited")]
          /\ pc' = "wfs_seek"
          /\ UNCHANGED <<wfsErr, polls, expiredAfterDeath>>
       \/ /\ proc[wfsCmd] = "signaled"
          /\ proc' = [proc EXCEPT ![wfsCmd] = "reaped"]
          /\ WfsReturn(Err("killed by signal", wfsCmd, <<>>), "signaled")
    /\ UNCHANGED <<inVars, fnVars, sysctl, retVars, wgVars, dadVars, pipe, logFile, logOff,
                   stdout, sockFile, exitDuringWait, wfsCmd, reapVars, monVars,
                   timeVars, fwdVars>>

\* Faulty variant: the log file is not rewound.
WfsSeekNoRewind ==
    /\ pc = "wfs_seek"
    /\ pc' = "wfs_readall"
    /\ UNCHANGED <<inVars, fnVars, sysctl, retVars, wgVars, dadVars, procVars, wfsVars,
                   reapVars, monVars, timeVars, fwdVars>>

\* logFile.Seek(0, 0); a failure is logged and the read goes on.
WfsSeek ==
    /\ pc = "wfs_seek"
    /\ \E ok \in BOOLEAN :
         /\ logOff' = [logOff EXCEPT ![wfsCmd] = IF ok THEN 0 ELSE @]
         /\ wfsObs' = [wfsObs EXCEPT ![wfsCmd] =
                          IF ok THEN @ ELSE Append(@, "seekerr")]
    /\ pc' = "wfs_readall"
    /\ UNCHANGED <<inVars, fnVars, sysctl, retVars, wgVars, dadVars, proc, pipe, logFile,
                   stdout, sockFile, exitDuringWait, wfsCmd, wfsErr, polls,
                   expiredAfterDeath, reapVars, monVars, timeVars, fwdVars>>

\* io.ReadAll(logFile): everything from the descriptor's offset to the end.
ReadAll(h) == SubSeq(logFile[h], logOff[h] + 1, Len(logFile[h]))

\* logContent, err := io.ReadAll(logFile) and the two returns after it.
WfsReadAll ==
    /\ pc = "wfs_readall"
    /\ \E ok \in BOOLEAN :
         IF ok
         THEN /\ WfsReturn(Err("failed", wfsCmd, ReadAll(wfsCmd)), "log")
              /\ logOff' = [logOff EXCEPT ![wfsCmd] = Len(logFile[wfsCmd])]
         ELSE /\ WfsReturn(Err("failed: read error", wfsCmd, <<>>), "readallerr")
              /\ UNCHANGED logOff
    /\ UNCHANGED <<inVars, fnVars, sysctl, retVars, wgVars, dadVars, proc, pipe, logFile,
                   stdout, sockFile, exitDuringWait, wfsCmd, reapVars, monVars,
                   timeVars, fwdVars>>

WaitForSync ==
    \/ WfsSetDeadline
    \/ WfsRead
    \/ WfsWait4
    \/ WfsSeek
    \/ WfsReadAll

\* ------------------------------------------------------ the helper processes

\* A helper runs on its own. Its steps are followed while the setup call can
\* observe them: its ready byte, its log and its death while waitForSync
\* waits for it, rootlessport's standard output until it is read, the death
\* of slirp4netns and its socket file while the socket file is awaited or
\* the liveness monitor polls.

\* waitForSync is waiting for helper h.
Watching(h) == pc \in WfsPcs /\ wfsCmd = h

\* The helper writes to its ready descriptor.
HelperReady(h) ==
    /\ Watching(h)
    /\ proc[h] = "running"
    /\ pipe[h] = "empty"
    /\ pipe' = [pipe EXCEPT ![h] = "byte"]
    /\ UNCHANGED <<proc, logFile, logOff, stdout, sockFile, exitDuringWait>>

\* The helper writes a line to its log; the descriptor's offset is shared and
\* moves to the end of the file.
HelperLog(h) ==
    /\ Watching(h)
    /\ proc[h] = "running"
    /\ Len(logFile[h]) < MaxLog
    /\ logFile' = [logFile EXCEPT ![h] = Append(@, Len(@) + 1)]
    /\ logOff' = [logOff EXCEPT ![h] = Len(logFile'[h])]
    /\ UNCHANGED <<proc, pipe, stdout, sockFile, exitDuringWait>>

\* rootlessport writes its human-readable error to standard output.
HelperStdout ==
    /\ Watching(Rlk)
    /\ proc[Rlk] = "running"
    /\ stdout = <<>>
    /\ stdout' \in {<<"msg">>, <<"msg", "\n">>}
    /\ UNCHANGED <<proc, pipe, logFile, logOff, sockFile, exitDuringWait>>

\* The helper exits, or is killed by a signal from outside.
HelperDies(h) ==
    /\ \/ Watching(h)
       \/ h = Slirp /\ (pc = "waitforfile" \/ monPc = "wait4")
    /\ proc[h] = "running"
    /\ \E how \in {"exited", "signaled"} : proc' = [proc EXCEPT ![h] = how]
    /\ exitDuringWait' = (exitDuringWait \/ (h = Slirp /\ pc = "waitforfile"))
    /\ UNCHANGED <<pipe, logFile, logOff, stdout, sockFile>>

\* slirp4netns creates the socket it was given with --api-socket.
SlirpCreateSocket ==
    /\ pc = "waitforfile"
    /\ proc[Slirp] = "running"
    /\ ~sockFile
    /\ sockFile' = TRUE
    /\ UNCHANGED <<proc, pipe, logFile, logOff, stdout, exitDuringWait>>

HelperStep ==
    /\ \/ \E h \in Helpers : HelperReady(h)
       \/ \E h \in Helpers : HelperLog(h)
       \/ HelperStdout
       \/ \E h \in Helpers : HelperDies(h)
       \/ SlirpCreateSocket
    /\ UNCHANGED <<inVars, fnVars, sysctl, pc, retVars, wgVars, dadVars, wfsVars,
                   reapVars, monVars, timeVars, fwdVars>>

\* -------------------------------------------------------- setupSlirp4netns

\* if netOptions.enableIPv6: the two WaitGroups get one each and the DAD task
\* is started.
SetupBegin ==
    /\ pc = "setup"
    /\ IF netOptions.enableIPv6
       THEN /\ slirpReadyWg' = slirpReadyWg + 1
            /\ netnsReadyWg' = netnsReadyWg + 1
            /\ dadPc' = "nsenter"
            /\ pc' = "wait_netns"
       ELSE /\ pc' = "start"
            /\ UNCHANGED <<wgVars, dadPc>>
    /\ UNCHANGED <<inVars, fnVars, sysctl, retVars, orgValue, dadErr, dadWarned, dadOps,
                   procVars, wfsVars, reapVars, monVars, timeVars, fwdVars>>

\* netnsReadyWg.Wait()
SetupWaitNetns ==
    /\ pc = "wait_netns"
    /\ NetnsReadyWait
    /\ pc' = "start"
    /\ UNCHANGED <<inVars, fnVars, sysctl, retVars, wgVars, dadVars, procVars, wfsVars,
                   reapVars, monVars, timeVars, fwdVars>>

\* cmd.Start(), and the call of waitForSync after it.
SetupStart ==
    /\ pc = "start"
    /\ sysctlAtStart' = sysctl
    /\ \E ok \in BOOLEAN :
         IF ok
         THEN /\ proc' = [proc EXCEPT ![Slirp] = "running"]
              /\ wfsCmd' = Slirp
              /\ polls' = 0
              /\ expiredAfterDeath' = 0
              /\ pc' = "wfs_deadline"
         ELSE /\ pc' = "start_failed"
              /\ UNCHANGED <<proc, wfsCmd, polls, expiredAfterDeath>>
    /\ UNCHANGED <<inVars, fnVars, sysctl, result, subnet, wgVars, dadVars, pipe, logFile,
                   logOff, stdout, sockFile, exitDuringWait, wfsErr, wfsObs,
                   reapVars, monVars, timeVars, fwdVars>>

\* cmd.Start failed: slirpReadyWg.Done() when IPv6 is enabled.
SetupStartFailedDone ==
    /\ pc = "start_failed"
    /\ slirpReadyWg' = IF netOptions.enableIPv6 THEN slirpReadyWg - 1 ELSE slirpReadyWg
    /\ pc' = "start_failed_ret"
    /\ UNCHANGED <<inVars, fnVars, sysctl, retVars, netnsReadyWg, dadVars, procVars, wfsVars,
                   reapVars, monVars, timeVars, fwdVars>>

\* Faulty variant: the deferred registration runs after a failed start too.
SetupStartFailedReturnReaps ==
    /\ pc = "start_failed_ret"
    /\ result' = Err("failed to start slirp4netns process", Slirp, <<>>)
    /\ pc' = "deferred"
    /\ UNCHANGED <<inVars, fnVars, sysctl, sysctlAtStart, subnet, wgVars, dadVars, procVars,
                   wfsVars, reapVars, monVars, timeVars, fwdVars>>

\* return fmt.Errorf("failed to start slirp4netns process: %w", err): the
\* defer that registers the process is not yet in place.
SetupStartFailedReturn ==
    /\ pc = "start_failed_ret"
    /\ result' = Err("failed to start slirp4netns process", Slirp, <<>>)
    /\ pc' = "returned"
    /\ UNCHANGED <<inVars, fnVars, sysctl, sysctlAtStart, subnet, wgVars, dadVars, procVars,
                   wfsVars, reapVars, monVars, timeVars, fwdVars>>

\* After waitForSync: slirpReadyWg.Done() when IPv6 is enabled.
SetupSlirpReadyDone ==
    /\ pc = "slirp_synced"
    /\ slirpReadyWg' = IF netOptions.enableIPv6 THEN slirpReadyWg - 1 ELSE slirpReadyWg
    /\ pc' = "check_sync_err"
    /\ UNCHANGED <<inVars, fnVars, sysctl, retVars, netnsReadyWg, dadVars, procVars, wfsVars,
                   reapVars, monVars, timeVars, fwdVars>>

\* Faulty variant: the error of the DAD task is returned to the caller.
SetupAfterSyncDadErr ==
    /\ pc = "check_sync_err"
    /\ IF dadErr # "nil"
       THEN /\ result' = Err(dadErr, "dad", <<>>)
            /\ pc' = "deferred"
            /\ UNCHANGED subnet
       ELSE IF wfsErr[Slirp] # Nil
       THEN /\ result' = wfsErr[Slirp]
            /\ pc' = "deferred"
            /\ UNCHANGED subnet
       ELSE /\ subnet' = IF netOptions.cidr # "" THEN netOptions.cidr
                         ELSE defaultSlirp4netnsSubnet
            /\ IF havePortMapping
               THEN /\ pc' = IF netOptions.isSlirpHostForward
                             THEN "fwd_begin" ELSE "rlk_begin"
                    /\ UNCHANGED result
               ELSE /\ result' = Nil
                    /\ pc' = "deferred"
    /\ UNCHANGED <<inVars, fnVars, sysctl, sysctlAtStart, wgVars, dadVars, procVars,
                   wfsVars, reapVars, monVars, timeVars, fwdVars>>

\* if err != nil { return err }; the subnet (the default, then
\* netOptions.cidr when it is set); and the choice of the port-forwarding
\* backend, or return nil without port mappings.
SetupAfterSync ==
    /\ pc = "check_sync_err"
    /\ IF wfsErr[Slirp] # Nil
       THEN /\ result' = wfsErr[Slirp]
            /\ pc' = "deferred"
            /\ UNCHANGED subnet
       ELSE IF netOptions.cidr # "" /\ ~CidrOk(netOptions.cidr)
       THEN /\ subnet' = defaultSlirp4netnsSubnet
            /\ result' = Err("invalid cidr", Slirp, <<>>)
            /\ pc' = "deferred"
       ELSE /\ subnet' = IF netOptions.cidr # "" THEN netOptions.cidr
                         ELSE defaultSlirp4netnsSubnet
            /\ IF havePortMapping
               THEN /\ pc' = IF netOptions.isSlirpHostForward
                             THEN "fwd_begin" ELSE "rlk_begin"
                    /\ UNCHANGED result
               ELSE /\ result' = Nil
                    /\ pc' = "deferred"
    /\ UNCHANGED <<inVars, fnVars, sysctl, sysctlAtStart, wgVars, dadVars, procVars,
                   wfsVars, reapVars, monVars, timeVars, fwdVars>>

\* The function returns and its deferred calls run: servicereaper.AddPID and
\* cmd.Process.Release() (which on Linux only forgets the pid), then
\* logFile.Close() on the unlinked log file and the close of the sync pipe.
\* The locals of the function are gone.
SetupDeferred ==
    /\ pc = "deferred"
    /\ reaper' = [reaper EXCEPT ![Slirp] = @ + 1]
    /\ released' = [released EXCEPT ![Slirp] = @ + 1]
    /\ logFile' = [logFile EXCEPT ![Slirp] = <<>>]
    /\ logOff' = [logOff EXCEPT ![Slirp] = 0]
    /\ pipe' = [pipe EXCEPT ![Slirp] = "closed"]
    /\ wfsCmd' = "none"
    /\ wfsErr' = [wfsErr EXCEPT ![Slirp] = Nil]
    /\ wfsObs' = [wfsObs EXCEPT ![Slirp] = <<>>]
    /\ mIdx' = 1
    /\ pIdx' = 1
    /\ off' = 0
    /\ pc' = "returned"
    /\ UNCHANGED <<inVars, fnVars, sysctl, retVars, wgVars, dadVars, proc, stdout, sockFile,
                   exitDuringWait, polls, expiredAfterDeath, monVars, timeVars,
                   issued>>

\* ------------------------------------------- setupRootlessPortMappingViaRLK

\* The pipes, the log file, the configuration and the lookup of the binary:
\* each can fail, and then nothing has been started.
RlkPrepare ==
    /\ pc = "rlk_begin"
    /\ \E ok \in BOOLEAN :
         IF ok THEN /\ pc' = "rlk_start"
                    /\ UNCHANGED result
               ELSE /\ result' = Err("rootlessport setup", Rlk, <<>>)
                    /\ pc' = "deferred"
    /\ UNCHANGED <<inVars, fnVars, sysctl, sysctlAtStart, subnet, wgVars, dadVars, procVars,
                   wfsVars, reapVars, monVars, timeVars, fwdVars>>

\* cmd.Start(), and the call of waitForSync after it.
RlkStart ==
    /\ pc = "rlk_start"
    /\ \E ok \in BOOLEAN :
         IF ok
         THEN /\ proc' = [proc EXCEPT ![Rlk] = "running"]
              /\ wfsCmd' = Rlk
              /\ polls' = 0
              /\ expiredAfterDeath' = 0
              /\ pc' = "wfs_deadline"
              /\ UNCHANGED result
         ELSE /\ result' = Err("failed to start rootlessport process", Rlk, <<>>)
              /\ pc' = "deferred"
              /\ UNCHANGED <<proc, wfsCmd, polls, expiredAfterDeath>>
    /\ UNCHANGED <<inVars, fnVars, sysctl, sysctlAtStart, subnet, wgVars, dadVars, pipe,
                   logFile, logOff, stdout, sockFile, exitDuringWait, wfsErr, wfsObs,
                   reapVars, monVars, timeVars, fwdVars>>

\* strings.TrimSuffix(stdoutStr, "\n")
TrimSuffix(str) ==
    IF Len(str) > 0 /\ str[Len(str)] = "\n" THEN SubSeq(str, 1, Len(str) - 1) ELSE str

\* The barrier's error is returned whatever rootlessport printed.
RlkSyncedBarrierError ==
    /\ pc = "rlk_synced"
    /\ result' = wfsErr[Rlk]
    /\ pc' = "rlk_deferred"
    /\ UNCHANGED <<inVars, fnVars, sysctl, sysctlAtStart, subnet, wgVars, dadVars, procVars,
                   wfsVars, reapVars, monVars, timeVars, fwdVars>>

\* The result of waitForSync: the captured standard output when there is
\* some, the barrier's error otherwise, nil on success.
RlkSynced ==
    /\ pc = "rlk_synced"
    /\ result' = IF wfsErr[Rlk] # Nil
                 THEN IF stdout # <<>> THEN Err("rootlessport", Rlk, TrimSuffix(stdout))
                                      ELSE wfsErr[Rlk]
                 ELSE Nil
    /\ pc' = "rlk_deferred"
    /\ UNCHANGED <<inVars, fnVars, sysctl, sysctlAtStart, subnet, wgVars, dadVars, procVars,
                   wfsVars, reapVars, monVars, timeVars, fwdVars>>

\* The function returns and its deferred calls run: servicereaper.AddPID and
\* cmd.Process.Release(), logFile.Close() and the close of the sync pipe;
\* its locals (the stdout buffer among them) are gone and control is back in
\* setupSlirp4netns.
RlkDeferred ==
    /\ pc = "rlk_deferred"
    /\ reaper' = [reaper EXCEPT ![Rlk] = @ + 1]
    /\ released' = [released EXCEPT ![Rlk] = @ + 1]
    /\ logFile' = [logFile EXCEPT ![Rlk] = <<>>]
    /\ logOff' = [logOff EXCEPT ![Rlk] = 0]
    /\ pipe' = [pipe EXCEPT ![Rlk] = "closed"]
    /\ stdout' = <<>>
    /\ wfsErr' = [wfsErr EXCEPT ![Rlk] = Nil]
    /\ wfsObs' = [wfsObs EXCEPT ![Rlk] = <<>>]
    /\ pc' = "deferred"
    /\ UNCHANGED <<inVars, fnVars, sysctl, retVars, wgVars, dadVars, proc, sockFile,
                   exitDuringWait, wfsCmd, polls, expiredAfterDeath, monVars,
                   timeVars, fwdVars>>

\* ----------------------------------------- setupRootlessPortMappingViaSlirp

\* strings.Split(port.Protocol, ","): the fields between the commas, empty
\* fields included.
RECURSIVE SplitAcc(_, _, _)
SplitAcc(str, cur, acc) ==
    IF str = <<>> THEN Append(acc, cur)
    ELSE IF Head(str) = "," THEN SplitAcc(Tail(str), <<>>, Append(acc, cur))
    ELSE SplitAcc(Tail(str), Append(cur, Head(str)), acc)

Split(str) == SplitAcc(str, <<>>, <<>>)

\* port.HostPort+i and port.ContainerPort+i on uint16.
PortAdd(a, b) == (a + b) % PortMod

\* hostIP := port.HostIP; if hostIP == "" { hostIP = "0.0.0.0" }
HostIPOf(port) == IF port.HostIP = "" THEN "0.0.0.0" ELSE port.HostIP

\* The slirp4netnsCmd that openSlirp4netnsPort marshals.
ApiCmd(proto, hostip, hostport, guestport) ==
    [Execute |-> "add_hostfwd", Proto |-> proto, HostAddr |-> hostip,
     HostPort |-> hostport, GuestPort |-> guestport]

\* How a call of openSlirp4netnsPort ends.
OpenOutcomes == {"ok", "dial", "write", "closewrite", "read", "decode", "errorkey"}

\* The command reached the socket: Dial and Write succeeded.
Sent(outcome) == outcome \notin {"dial", "write"}

\* Faulty variant: the offset is not reset for the next protocol.
RECURSIVE LoopHeadNoReset(_, _, _, _)
LoopHeadNoReset(ms, m, p, i) ==
    IF m > Len(ms) THEN <<m, p, i>>
    ELSE IF p > Len(Split(ms[m].Protocol)) THEN LoopHeadNoReset(ms, m + 1, 1, 0)
    ELSE IF ~(i < ms[m].Range) THEN LoopHeadNoReset(ms, m, p + 1, i)
    ELSE <<m, p, i>>

\* The heads of the three nested loops, from loop variables (m, p, i): the
\* next iteration that calls openSlirp4netnsPort, or m > len(mappings) when
\* the loops are over. A loop that ends moves on to the next protocol or
\* mapping, with i := uint16(0).
RECURSIVE LoopHead(_, _, _, _)
LoopHead(ms, m, p, i) ==
    IF m > Len(ms) THEN <<m, p, i>>
    ELSE IF p > Len(Split(ms[m].Protocol)) THEN LoopHead(ms, m + 1, 1, 0)
    ELSE IF ~(i < ms[m].Range) THEN LoopHead(ms, m, p + 1, 0)
    ELSE <<m, p, i>>

\* chWait := make(chan error); go func() {...}(); defer close(chWait); and
\* the call of WaitForFile with its ceiling of pidWaitTimeout.
FwdBegin ==
    /\ pc = "fwd_begin"
    /\ chWait' = "open"
    /\ monPc' = "wait4"
    /\ monI' = 0
    /\ wffLeft' = PidWaitIntervals
    /\ pc' = "waitforfile"
    /\ UNCHANGED <<inVars, fnVars, sysctl, retVars, wgVars, dadVars, procVars, wfsVars,
                   reapVars, monSleep, monBroke, wffRes, fwdVars>>

\* WaitForFile receives the error the monitor sends on chWait; the monitor
\* goes on to its time.Sleep(interval).
WffRecv ==
    /\ pc = "waitforfile"
    /\ monPc = "send"
    /\ chWait = "open"
    /\ monPc' = "sleep"
    /\ monSleep' = 1
    /\ wffRes' = "exited"
    /\ wffLeft' = 0
    /\ pc' = "wff_ret"
    /\ UNCHANGED <<inVars, fnVars, sysctl, retVars, wgVars, dadVars, procVars, wfsVars,
                   reapVars, chWait, monI, monBroke, fwdVars>>

\* WaitForFile finds the file.
WffFound ==
    /\ pc = "waitforfile"
    /\ sockFile
    /\ wffRes' = "found"
    /\ wffLeft' = 0
    /\ pc' = "wff_ret"
    /\ UNCHANGED <<inVars, fnVars, sysctl, retVars, wgVars, dadVars, procVars, wfsVars,
                   reapVars, monVars, fwdVars>>

\* WaitForFile gives up when the ceiling is reached.
WffTimeout ==
    /\ pc = "waitforfile"
    /\ wffLeft = 0
    /\ wffRes' = "timeout"
    /\ pc' = "wff_ret"
    /\ UNCHANGED <<inVars, fnVars, sysctl, retVars, wgVars, dadVars, procVars, wfsVars,
                   reapVars, monVars, wffLeft, fwdVars>>

\* if _, err := WaitForFile(...); err != nil { return ... }; otherwise
\* ctr.convertPortMappings() and the heads of the loops.
FwdAfterWait ==
    /\ pc = "wff_ret"
    /\ IF wffRes # "found"
       THEN /\ result' = Err("waiting for slirp4nets to create the api socket file",
                             Slirp, <<wffRes>>)
            /\ pc' = "fwd_close"
            /\ UNCHANGED fwdVars
       ELSE /\ LET h == LoopHead(portMappings, 1, 1, 0)
               IN /\ mIdx' = h[1]
                  /\ pIdx' = h[2]
                  /\ off' = h[3]
            /\ pc' = "fwd_loop"
            /\ UNCHANGED <<result, issued>>
    /\ UNCHANGED <<inVars, fnVars, sysctl, sysctlAtStart, subnet, wgVars, dadVars, procVars,
                   wfsVars, reapVars, monVars, timeVars>>

\* The loop over the mappings has ended: return nil.
FwdLoopDone ==
    /\ pc = "fwd_loop"
    /\ mIdx > Len(portMappings)
    /\ result' = Nil
    /\ pc' = "fwd_close"
    /\ UNCHANGED <<inVars, fnVars, sysctl, sysctlAtStart, subnet, wgVars, dadVars, procVars,
                   wfsVars, reapVars, monVars, timeVars, fwdVars>>

\* Faulty variant: the error is kept and the loops go on.
FwdOpenPortGoesOn ==
    /\ pc = "fwd_loop"
    /\ mIdx <= Len(portMappings)
    /\ \E o \in OpenOutcomes :
         LET port == portMappings[mIdx]
             cmd  == ApiCmd(Split(port.Protocol)[pIdx], HostIPOf(port),
                            PortAdd(port.HostPort, off),
                            PortAdd(port.ContainerPort, off))
             h    == LoopHead(portMappings, mIdx, pIdx, PortAdd(off, 1))
         IN /\ issued' = IF Sent(o) THEN Append(issued, cmd) ELSE issued
            /\ mIdx' = h[1]
            /\ pIdx' = h[2]
            /\ off' = h[3]
            /\ result' = IF o = "ok" THEN result ELSE Err("add_hostfwd", Slirp, <<o>>)
            /\ UNCHANGED pc
    /\ UNCHANGED <<inVars, fnVars, sysctl, sysctlAtStart, subnet, wgVars, dadVars, procVars,
                   wfsVars, reapVars, monVars, timeVars>>

\* openSlirp4netnsPort(apiSocket, protocol, hostIP, port.HostPort+i,
\* port.ContainerPort+i); an error is returned at once, otherwise i++ and
\* the heads of the loops.
FwdOpenPort ==
    /\ pc = "fwd_loop"
    /\ mIdx <= Len(portMappings)
    /\ \E o \in OpenOutcomes :
         LET port == portMappings[mIdx]
             cmd  == ApiCmd(Split(port.Protocol)[pIdx], HostIPOf(port),
                            PortAdd(port.HostPort, off),
                            PortAdd(port.ContainerPort, off))
         IN /\ issued' = IF Sent(o) THEN Append(issued, cmd) ELSE issued
            /\ IF o = "ok"
               THEN /\ LET h == LoopHead(portMappings, mIdx, pIdx, PortAdd(off, 1))
                       IN /\ mIdx' = h[1]
                          /\ pIdx' = h[2]
                          /\ off' = h[3]
                    /\ UNCHANGED <<pc, result>>
               ELSE /\ result' = Err("add_hostfwd", Slirp, <<o>>)
                    /\ pc' = "fwd_close"
                    /\ UNCHANGED <<mIdx, pIdx, off>>
    /\ UNCHANGED <<inVars, fnVars, sysctl, sysctlAtStart, subnet, wgVars, dadVars, procVars,
                   wfsVars, reapVars, monVars, timeVars>>

\* The deferred close(chWait); control is back in setupSlirp4netns.
FwdClose ==
    /\ pc = "fwd_close"
    /\ chWait' = "closed"
    /\ pc' = "deferred"
    /\ UNCHANGED <<inVars, fnVars, sysctl, retVars, wgVars, dadVars, procVars, wfsVars,
                   reapVars, monPc, monI, monSleep, monBroke, timeVars, fwdVars>>

\* ----------------------------------------------------- the liveness monitor

\* i < pidWaitTimeout is false: the goroutine ends.
MonLoopEnd ==
    /\ monPc = "wait4"
    /\ monI >= PidWaitIntervals
    /\ monPc' = "done"
    /\ monI' = 0
    /\ UNCHANGED <<inVars, fnVars, sysctl, pc, retVars, wgVars, dadVars, procVars, wfsVars,
                   reapVars, chWait, monSleep, monBroke, timeVars, fwdVars>>

\* syscall.Wait4(cmd.Process.Pid, &status, syscall.WNOHANG, nil): an error
\* breaks the loop; no state change continues it (i += interval, without the
\* Sleep); an exit or a signal goes on to the send.
MonWait4 ==
    /\ monPc = "wait4"
    /\ monI < PidWaitIntervals
    /\ \/ /\ monPc' = "done"
          /\ monBroke' = TRUE
          /\ monI' = 0
          /\ UNCHANGED proc
       \/ /\ proc[Slirp] = "running"
          /\ monI' = monI + 1
          /\ UNCHANGED <<proc, monPc, monBroke>>
       \/ /\ Dead(Slirp)
          /\ proc' = [proc EXCEPT ![Slirp] = "reaped"]
          /\ monPc' = "send"
          /\ UNCHANGED <<monI, monBroke>>
    /\ UNCHANGED <<inVars, fnVars, sysctl, pc, retVars, wgVars, dadVars, pipe, logFile,
                   logOff, stdout, sockFile, exitDuringWait, wfsVars, reapVars,
                   chWait, monSleep, timeVars, fwdVars>>

\* chWait <- err on a closed channel panics, and the panic ends the process.
MonSendPanic ==
    /\ monPc = "send"
    /\ chWait = "closed"
    /\ monPc' = "panic"
    /\ pc' = "crashed"
    /\ dadPc' = IF dadPc \in {"unstarted", "exit"} THEN dadPc ELSE "crashed"
    /\ UNCHANGED <<inVars, fnVars, sysctl, retVars, wgVars, orgValue, dadErr, dadWarned,
                   dadOps, procVars, wfsVars, reapVars, chWait, monI, monSleep,
                   monBroke, timeVars, fwdVars>>

\* time.Sleep(interval) is over: i += interval and the next iteration.
MonSleepDone ==
    /\ monPc = "sleep"
    /\ monSleep = 0
    /\ monI' = monI + 1
    /\ monPc' = "wait4"
    /\ UNCHANGED <<inVars, fnVars, sysctl, pc, retVars, wgVars, dadVars, procVars, wfsVars,
                   reapVars, chWait, monSleep, monBroke, timeVars, fwdVars>>

\* One interval passes for whoever waits on time: WaitForFile's ceiling and
\* the monitor's Sleep.
Tick ==
    /\ \/ pc = "waitforfile" /\ wffLeft > 0
       \/ monPc = "sleep" /\ monSleep > 0
    /\ wffLeft' = IF pc = "waitforfile" /\ wffLeft > 0 THEN wffLeft - 1 ELSE wffLeft
    /\ monSleep' = IF monPc = "sleep" /\ monSleep > 0 THEN monSleep - 1 ELSE monSleep
    /\ UNCHANGED <<inVars, fnVars, sysctl, pc, retVars, wgVars, dadVars, procVars, wfsVars,
                   reapVars, chWait, monPc, monI, monBroke, wffRes, fwdVars>>

\* ------------------------------------------- reloadRootlessRLKPortMapping

\* setupSlirp4netns is not running.
NoSetup ==
    /\ netOptions = [enableIPv6 |-> FALSE, isSlirpHostForward |-> FALSE, cidr |-> ""]
    /\ portMappings = <<>>
    /\ sysctl0 = "absent"
    /\ sysctl = "absent"
    /\ pc = "none"
    /\ sysctlAtStart = "none"
    /\ subnet = "none"
    /\ proc = [h \in Helpers |-> "unstarted"]
    /\ pipe = [h \in Helpers |-> "empty"]
    /\ wfsCmd = "none"
    /\ wfsObs = [h \in Helpers |-> <<>>]
    /\ SetupIdle

\* What the rootlessport server may answer before it closes the stream.
ReplyBytes == {"O", "K", "\n"}
Replies == UNION { [1..n -> ReplyBytes] : n \in 0..MaxReply }

\* The call: the number of port mappings of the container and the answer
\* the server will give; nothing has happened yet.
ReloadInit ==
    /\ NoSetup
    /\ reload \in [pc: {"begin"}, PortMappings: 0..1, reply: Replies,
                   dials: {0}, requests: {0}, closes: {0}, connOpen: {FALSE},
                   b: {<<>>}, steps: {<<>>}, result: {Nil}]
    /\ args = NoCall
    /\ addr = NoCall
    /\ prep = NoCall
    /\ parse = NoCall
    /\ childIP = NoCall

\* if len(c.config.PortMappings) == 0 { return nil }
RlNoMappings ==
    /\ reload.pc = "begin"
    /\ reload.PortMappings = 0
    /\ reload' = [reload EXCEPT !.pc = "returned", !.result = Nil]
    /\ UNCHANGED <<setupVars, args, addr, prep, parse, childIP>>

\* conn, err := openUnixSocket(...); on success defer conn.Close().
RlDial ==
    /\ reload.pc = "begin"
    /\ reload.PortMappings > 0
    /\ \E ok \in BOOLEAN :
         reload' = IF ok
                   THEN [reload EXCEPT !.pc = "encode", !.dials = @ + 1,
                                       !.connOpen = TRUE,
                                       !.steps = Append(@, "connected")]
                   ELSE [reload EXCEPT !.pc = "returned", !.dials = @ + 1,
                                       !.result = Err("could not reload rootless port mappings",
                                                      Rlk, <<>>)]
    /\ UNCHANGED <<setupVars, args, addr, prep, parse, childIP>>

\* The deferred conn.Close() of a return after the connection was opened.
RlReturn(r, err) ==
    [r EXCEPT !.pc = "returned", !.result = err, !.closes = @ + 1, !.connOpen = FALSE]

\* err = enc.Encode(childIP)
RlEncode ==
    /\ reload.pc = "encode"
    /\ \E ok \in BOOLEAN :
         reload' = IF ok
                   THEN [reload EXCEPT !.pc = "readall", !.requests = @ + 1,
                                       !.steps = Append(@, "written")]
                   ELSE RlReturn(reload, Err("port reloading failed", Rlk, <<"write">>))
    /\ UNCHANGED <<setupVars, args, addr, prep, parse, childIP>>

\* b, err := io.ReadAll(conn): the bytes up to the end of the stream, one
\* Read after the other, or the error of a Read.
RlReadAll ==
    /\ reload.pc = "readall"
    /\ \/ /\ Len(reload.b) < Len(reload.reply)
          /\ reload' = [reload EXCEPT !.b = Append(@, reload.reply[Len(reload.b) + 1])]
       \/ /\ Len(reload.b) = Len(reload.reply)
          /\ reload' = [reload EXCEPT !.pc = "compare", !.steps = Append(@, "read")]
       \/ reload' = RlReturn(reload, Err("port reloading failed", Rlk, <<"read">>))
    /\ UNCHANGED <<setupVars, args, addr, prep, parse, childIP>>

\* Faulty variant: surrounding white space of the answer is ignored.
RlCompareTrimmed ==
    /\ reload.pc = "compare"
    /\ reload' = RlReturn(reload, IF TrimSuffix(reload.b) # <<"O", "K">>
                                  THEN Err("port reloading failed", Rlk, reload.b)
                                  ELSE Nil)
    /\ UNCHANGED <<setupVars, args, addr, prep, parse, childIP>>

\* data := string(b); if data != "OK" { return fmt.Errorf(..., data) };
\* return nil
RlCompare ==
    /\ reload.pc = "compare"
    /\ reload' = RlReturn(reload, IF reload.b # <<"O", "K">>
                                  THEN Err("port reloading failed", Rlk, reload.b)
                                  ELSE Nil)
    /\ UNCHANGED <<setupVars, args, addr, prep, parse, childIP>>

ReloadNext ==
    \/ RlNoMappings
    \/ RlDial
    \/ RlEncode
    \/ RlReadAll
    \/ RlCompare

ReloadSpec == ReloadInit /\ [][ReloadNext]_vars

\* -------------------------------------------- createBasicSlirp4netnsCmdArgs

\* The default MTU that parseSlirp4netnsNetworkOptions starts from.
slirp4netnsMTU == 65520

\* slirp4netnsNetworkOptions as parseSlirp4netnsNetworkOptions can return
\* them: a cidr and outbound addresses that passed its validation, an mtu of
\* at least 68.
OptionSet ==
    [cidr: {""} \cup ValidCidrs, disableHostLoopback: BOOLEAN, enableIPv6: BOOLEAN,
     isSlirpHostForward: {FALSE}, noPivotRoot: BOOLEAN, mtu: {slirp4netnsMTU, 1500},
     outboundAddr: {"", "eth0"}, outboundAddr6: {"", "fd00::1"}]

\* slirpFeatures as checkSlirpFlags can return them.
FeatureSet ==
    [HasDisableHostLoopback: BOOLEAN, HasMTU: BOOLEAN, HasEnableSandbox: BOOLEAN,
     HasEnableSeccomp: BOOLEAN, HasCIDR: BOOLEAN, HasOutboundAddr: BOOLEAN,
     HasIPv6: BOOLEAN]

\* return nil, fmt.Errorf(msg)
ArgsErr(msg) == [cmdArgs |-> Nil, err |-> Err(msg, Slirp, <<>>)]

createBasicSlirp4netnsCmdArgs(options, features) ==
    LET a1 == IF options.disableHostLoopback /\ features.HasDisableHostLoopback
              THEN << <<"--disable-host-loopback">> >> ELSE <<>>
        a2 == IF options.mtu > -1 /\ features.HasMTU
              THEN Append(a1, <<"--mtu", options.mtu>>) ELSE a1
        a3 == IF ~options.noPivotRoot /\ features.HasEnableSandbox
              THEN Append(a2, <<"--enable-sandbox">>) ELSE a2
        a4 == IF features.HasEnableSeccomp
              THEN Append(a3, <<"--enable-seccomp">>) ELSE a3
        a5 == IF options.cidr # "" THEN Append(a4, <<"--cidr", options.cidr>>) ELSE a4
        a6 == IF options.enableIPv6 THEN Append(a5, <<"--enable-ipv6">>) ELSE a5
        a7 == IF options.outboundAddr # ""
              THEN Append(a6, <<"--outbound-addr", options.outboundAddr>>) ELSE a6
        a8 == IF options.outboundAddr6 # ""
              THEN Append(a7, <<"--outbound-addr6", options.outboundAddr6>>) ELSE a7
    IN IF options.cidr # "" /\ ~features.HasCIDR
       THEN ArgsErr("cidr not supported")
       ELSE IF options.enableIPv6 /\ ~features.HasIPv6
       THEN ArgsErr("enable_ipv6 not supported")
       ELSE IF options.outboundAddr # "" /\ ~features.HasOutboundAddr
       THEN ArgsErr("outbound_addr not supported")
       ELSE IF options.outboundAddr6 # ""
               /\ (~features.HasOutboundAddr \/ ~features.HasIPv6)
       THEN ArgsErr("outbound_addr6 not supported")
       ELSE IF options.outboundAddr6 # "" /\ ~options.enableIPv6
       THEN ArgsErr("enable_ipv6=true is required for outbound_addr6")
       ELSE [cmdArgs |-> a8, err |-> Nil]

\* The call: any options and any features.
ArgsInit ==
    /\ NoSetup
    /\ args \in [pc: {"call"}, options: OptionSet, features: FeatureSet,
                 out: {Nil}]
    /\ reload = NoCall
    /\ addr = NoCall
    /\ prep = NoCall
    /\ parse = NoCall
    /\ childIP = NoCall

ArgsCall ==
    /\ args.pc = "call"
    /\ args' = [args EXCEPT !.pc = "returned",
                            !.out = createBasicSlirp4netnsCmdArgs(args.options,
                                                                  args.features)]
    /\ UNCHANGED <<setupVars, reload, addr, prep, parse, childIP>>

ArgsNext == ArgsCall

ArgsSpec == ArgsInit /\ [][ArgsNext]_vars

\* ------------------------------------------------------------------ addToIP

\* A uint32 is kept as its two 16-bit halves <<high, low>>, most significant
\* first.
HalfMod == 65536

\* uint32(ipFixed[3]) | uint32(ipFixed[2])<<8 | uint32(ipFixed[1])<<16 |
\* uint32(ipFixed[0])<<24
U32OfBytes(b) == <<b[1] * 256 + b[2], b[3] * 256 + b[4]>>

\* net.IPv4(byte(x>>24), byte(x>>16&0xFF), byte(x>>8)&0xFF, byte(x&0xFF))
BytesOfU32(x) == <<x[1] \div 256, x[1] % 256, x[2] \div 256, x[2] % 256>>

\* a + n on uint32, for an n below 2^16: the carry out of the high half is
\* lost.
U32Add(a, n) ==
    LET low == a[2] + n
    IN <<(a[1] + (low \div HalfMod)) % HalfMod, low % HalfMod>>

\* a < b on uint32.
U32Less(a, b) == a[1] < b[1] \/ (a[1] = b[1] /\ a[2] < b[2])

\* ip.Mask(net.CIDRMask(ones, 32)) on a uint32.
U32Mask(x, ones) ==
    IF ones >= 16
    THEN <<x[1], x[2] - (x[2] % (2 ^ (32 - ones)))>>
    ELSE <<x[1] - (x[1] % (2 ^ (16 - ones))), 0>>

\* Largest number of host bits of the subnets that are tried.
MaxHostBits == 8

\* Addresses the subnets are made around.
SubnetSeeds == { <<10, 0, 2, 0>>, <<10, 0, 2, 255>>, <<255, 255, 255, 0>>,
                 <<255, 255, 255, 255>> }

\* Valid IPv4 subnets as net.ParseCIDR returns them: the address masked to
\* the prefix.
Subnets ==
    { [IP |-> BytesOfU32(U32Mask(U32OfBytes(t[1]), t[2])), ones |-> t[2]] :
        t \in SubnetSeeds \X ((32 - MaxHostBits)..32) }

\* The offsets of GetSlirp4netnsGateway, GetSlirp4netnsDNS, GetSlirp4netnsIP.
Offsets == {2, 3, 100}

\* subnet.Contains(ip): the address masked with the subnet's mask is the
\* subnet's address.
Contains(ipnet, ip) == BytesOfU32(U32Mask(U32OfBytes(ip), ipnet.ones)) = ipnet.IP

\* Faulty variant: the overflow check is missing.
addToIPWraps(ipnet, offset) ==
    LET ipInteger == U32OfBytes(ipnet.IP)
        ipNewRaw  == U32Add(ipInteger, offset)
        ipNew     == BytesOfU32(ipNewRaw)
    IN IF ~Contains(ipnet, ipNew)
       THEN [ip |-> Nil, err |-> Err("calculated ip address is not within given subnet",
                                     "addToIP", ipNew)]
       ELSE [ip |-> ipNew, err |-> Nil]

addToIP(ipnet, offset) ==
    LET ipInteger == U32OfBytes(ipnet.IP)
        ipNewRaw  == U32Add(ipInteger, offset)
        ipNew     == BytesOfU32(ipNewRaw)
    IN IF U32Less(ipNewRaw, ipInteger)
       THEN [ip |-> Nil, err |-> Err("integer overflow while calculating ip address offset",
                                     "addToIP", <<>>)]
       ELSE IF ~Contains(ipnet, ipNew)
       THEN [ip |-> Nil, err |-> Err("calculated ip address is not within given subnet",
                                     "addToIP", ipNew)]
       ELSE [ip |-> ipNew, err |-> Nil]

\* The call: any subnet and one of the three offsets.
AddrInit ==
    /\ NoSetup
    /\ addr \in [pc: {"call"}, subnet: Subnets, offset: Offsets, out: {Nil}]
    /\ reload = NoCall
    /\ args = NoCall
    /\ prep = NoCall
    /\ parse = NoCall
    /\ childIP = NoCall

AddrCall ==
    /\ addr.pc = "call"
    /\ addr' = [addr EXCEPT !.pc = "returned",
                            !.out = addToIP(addr.subnet, addr.offset)]
    /\ UNCHANGED <<setupVars, reload, args, prep, parse, childIP>>

AddrNext == AddrCall

AddrSpec == AddrInit /\ [][AddrNext]_vars

\* ------------------------------------------- parseSlirp4netnsNetworkOptions

\* Option strings after strings.SplitN(o, "=", 2): <<key, value>>, or one
\* element when there is no "=".
OptionStrings ==
    { <<"cidr", "10.42.0.0/24">>, <<"cidr", "10.42.0.0/33">>,
      <<"port_handler", "slirp4netns">>, <<"enable_ipv6", "false">>,
      <<"mtu", "1500">>, <<"mtu", "67">>, <<"outbound_addr6", "fd00::1">>,
      <<"no_such_option", "1">>, <<"mtu">> }

OptionLists == UNION { [1..n -> OptionStrings] : n \in 0..MaxOptions }

\* Values that net.ParseIP or net.InterfaceByName accept.
ValidOutboundAddrs == {"10.0.0.1", "eth0"}
ValidOutboundAddrs6 == {"fd00::1", "eth0"}

\* strconv.Atoi on the values that occur.
Atoi(str) ==
    CASE str = "1500" -> [n |-> 1500, err |-> FALSE]
      [] str = "67"   -> [n |-> 67, err |-> FALSE]
      [] OTHER        -> [n |-> 0, err |-> TRUE]

ParseErr(msg, o) == Err(msg, Slirp, o)

\* One iteration of the loop over slirpOptions: the options after it, or the
\* error it returns.
ParseOption(opts, o) ==
    IF Len(o) < 2
    THEN [opts |-> opts, err |-> ParseErr("unknown option for slirp4netns", o)]
    ELSE LET option == o[1]
             value  == o[2]
             Ok(new) == [opts |-> new, err |-> Nil]
             Bad(msg) == [opts |-> opts, err |-> ParseErr(msg, o)]
         IN CASE option = "cidr" ->
                   IF value \notin ValidCidrs THEN Bad("invalid cidr")
                   ELSE Ok([opts EXCEPT !.cidr = value])
              [] option = "port_handler" ->
                   IF value = "slirp4netns"
                   THEN Ok([opts EXCEPT !.isSlirpHostForward = TRUE])
                   ELSE IF value = "rootlesskit"
                   THEN Ok([opts EXCEPT !.isSlirpHostForward = FALSE])
                   ELSE Bad("unknown port_handler for slirp4netns")
              [] option = "allow_host_loopback" ->
                   IF value = "true"
                   THEN Ok([opts EXCEPT !.disableHostLoopback = FALSE])
                   ELSE IF value = "false"
                   THEN Ok([opts EXCEPT !.disableHostLoopback = TRUE])
                   ELSE Bad("invalid value of allow_host_loopback for slirp4netns")
              [] option = "enable_ipv6" ->
                   IF value = "true" THEN Ok([opts EXCEPT !.enableIPv6 = TRUE])
                   ELSE IF value = "false" THEN Ok([opts EXCEPT !.enableIPv6 = FALSE])
                   ELSE Bad("invalid value of enable_ipv6 for slirp4netns")
              [] option = "outbound_addr" ->
                   IF value \notin ValidOutboundAddrs THEN Bad("invalid outbound_addr")
                   ELSE Ok([opts EXCEPT !.outboundAddr = value])
              [] option = "outbound_addr6" ->
                   IF value \notin ValidOutboundAddrs6 THEN Bad("invalid outbound_addr6")
                   ELSE Ok([opts EXCEPT !.outboundAddr6 = value])
              [] option = "mtu" ->
                   IF Atoi(value).n < 68 \/ Atoi(value).err THEN Bad("invalid mtu")
                   ELSE Ok([opts EXCEPT !.mtu = Atoi(value).n])
              [] OTHER -> Bad("unknown option for slirp4netns")

RECURSIVE ParseFrom(_, _)
ParseFrom(opts, slirpOptions) ==
    IF slirpOptions = <<>> THEN [opts |-> opts, err |-> Nil]
    ELSE LET r == ParseOption(opts, Head(slirpOptions))
         IN IF r.err # Nil THEN [opts |-> Nil, err |-> r.err]
            ELSE ParseFrom(r.opts, Tail(slirpOptions))

\* The options the loop starts from, and the loop.
parseSlirp4netnsNetworkOptions(NoPivotRoot, slirpOptions) ==
    ParseFrom([cidr |-> "", disableHostLoopback |-> TRUE, enableIPv6 |-> TRUE,
               isSlirpHostForward |-> FALSE, noPivotRoot |-> NoPivotRoot,
               mtu |-> slirp4netnsMTU, outboundAddr |-> "", outboundAddr6 |-> ""],
              slirpOptions)

\* The option strings of the calls of the parser that are followed alone:
\* two valid values for three of the keys.
ParseStrings ==
    { <<"enable_ipv6", "true">>, <<"enable_ipv6", "false">>,
      <<"port_handler", "slirp4netns">>, <<"port_handler", "rootlesskit">>,
      <<"allow_host_loopback", "true">>,
      <<"outbound_addr", "10.0.0.1">>, <<"outbound_addr", "eth0">>,
      <<"outbound_addr6", "fd00::1">>,
      <<"mtu", "1500">>, <<"mtu", "67">>, <<"cidr", "10.42.0.0/24">> }

ParseLists(n) == UNION { [1..k -> ParseStrings] : k \in 0..n }

\* The options the loop starts from.
DefaultOpts(NoPivotRoot) ==
    [cidr |-> "", disableHostLoopback |-> TRUE, enableIPv6 |-> TRUE,
     isSlirpHostForward |-> FALSE, noPivotRoot |-> NoPivotRoot,
     mtu |-> slirp4netnsMTU, outboundAddr |-> "", outboundAddr6 |-> ""]

\* Faulty variant: the container's options come first.
MergeContainerFirst(NetworkCmdOptions, extraOptions) == extraOptions \o NetworkCmdOptions

\* slirpOptions: r.config.Engine.NetworkCmdOptions, then extraOptions.
MergeOptions(NetworkCmdOptions, extraOptions) == NetworkCmdOptions \o extraOptions

ParseInit ==
    /\ NoSetup
    /\ parse \in [pc: {"merge"}, NoPivotRoot: BOOLEAN,
                  NetworkCmdOptions: ParseLists(MaxGlobalOptions),
                  extraOptions: ParseLists(MaxOptions),
                  slirpOptions: {<<>>}, i: {1}, opts: {Nil}, err: {Nil}]
    /\ reload = NoCall
    /\ args = NoCall
    /\ addr = NoCall
    /\ prep = NoCall
    /\ childIP = NoCall

\* The merged slice and the options with their defaults.
ParseMerge ==
    /\ parse.pc = "merge"
    /\ parse' = [parse EXCEPT
                   !.pc = "loop",
                   !.slirpOptions = MergeOptions(parse.NetworkCmdOptions,
                                                 parse.extraOptions),
                   !.opts = DefaultOpts(parse.NoPivotRoot)]
    /\ UNCHANGED <<setupVars, reload, args, addr, prep, childIP>>

\* One iteration of the loop: the option is applied, or its error returned
\* with nil options.
ParseIteration ==
    /\ parse.pc = "loop"
    /\ parse.i <= Len(parse.slirpOptions)
    /\ LET r == ParseOption(parse.opts, parse.slirpOptions[parse.i])
       IN parse' = IF r.err # Nil
                   THEN [parse EXCEPT !.pc = "returned", !.opts = Nil, !.err = r.err]
                   ELSE [parse EXCEPT !.i = @ + 1, !.opts = r.opts]
    /\ UNCHANGED <<setupVars, reload, args, addr, prep, childIP>>

\* return slirp4netnsOpts, nil
ParseReturn ==
    /\ parse.pc = "loop"
    /\ parse.i > Len(parse.slirpOptions)
    /\ parse' = [parse EXCEPT !.pc = "returned"]
    /\ UNCHANGED <<setupVars, reload, args, addr, prep, childIP>>

ParseNext ==
    \/ ParseMerge
    \/ ParseIteration
    \/ ParseReturn

ParseSpec == ParseInit /\ [][ParseNext]_vars

\* ------------------------------------------------- getRootlessPortChildIP

\* Addresses of network attachments: four bytes for IPv4, eight groups for
\* IPv6 (fd00::2 and fd01::2).
V4Addresses == { <<10, 88, 0, 2>>, <<10, 89, 0, 2>> }
V6Addresses == { <<64768, 0, 0, 0, 0, 0, 0, 2>>, <<64769, 0, 0, 0, 0, 0, 0, 2>> }

\* netAddress.IPNet.IP.To4() != nil
IsV4(ip) == Len(ip) = 4

\* The subnets of one status block, in the order of its interfaces.
SubnetLists == UNION { [1..k -> V4Addresses \cup V6Addresses] : k \in 0..MaxSubnets }

\* map[string]types.StatusBlock: the attachments by network name.
NetStatuses ==
    UNION { [names -> SubnetLists] : names \in SUBSET (1..MaxNetworks) }

\* GetSlirp4netnsIP: address 100 of the container's subnet, or of the default
\* subnet when it has none; the caller turns an error into "".
GetSlirp4netnsIP(sn) ==
    IF sn = Nil THEN [ip |-> <<defaultSlirp4netnsSubnet, 100>>, err |-> Nil]
    ELSE addToIP(sn, 100)

\* The inner loops over one status block, from the IPv6 address found so
\* far: the first IPv4 address ends them, an IPv6 address is remembered.
RECURSIVE ScanSubnets(_, _)
ScanSubnets(subnets, ipv6) ==
    IF subnets = <<>> THEN [found |-> FALSE, ip |-> Nil, ipv6 |-> ipv6]
    ELSE IF IsV4(Head(subnets)) THEN [found |-> TRUE, ip |-> Head(subnets), ipv6 |-> ipv6]
    ELSE ScanSubnets(Tail(subnets), Head(subnets))

\* A container, its network status, and no call so far.
ChildIPInit ==
    /\ NoSetup
    /\ childIP \in [pc: {"call"}, IsSlirp4netns: BOOLEAN,
                    slirp4netnsSubnet: {Nil, [IP |-> <<10, 0, 2, 0>>, ones |-> 24],
                                        [IP |-> <<255, 255, 255, 255>>, ones |-> 32]},
                    netStatus: NetStatuses, visited: {{}}, ipv6: {Nil},
                    results: {<<>>}]
    /\ ~childIP.IsSlirp4netns => childIP.slirp4netnsSubnet = Nil
    /\ reload = NoCall
    /\ args = NoCall
    /\ addr = NoCall
    /\ prep = NoCall
    /\ parse = NoCall

\* The call returns ip.
ChildIPReturn(ip) ==
    childIP' = [childIP EXCEPT !.pc = "returned", !.results = Append(@, ip),
                               !.visited = {}, !.ipv6 = Nil]

\* if c.config.NetMode.IsSlirp4netns()
ChildIPSlirp4netns ==
    /\ childIP.pc = "call"
    /\ childIP.IsSlirp4netns
    /\ LET r == GetSlirp4netnsIP(childIP.slirp4netnsSubnet)
       IN ChildIPReturn(IF r.err # Nil THEN <<>> ELSE r.ip)
    /\ UNCHANGED <<setupVars, reload, args, addr, prep, parse>>

\* One iteration of for _, status := range netStatus: the runtime hands out
\* the entries of the map in an order of its choosing.
ChildIPRange ==
    /\ childIP.pc = "call"
    /\ ~childIP.IsSlirp4netns
    /\ \E name \in DOMAIN childIP.netStatus \ childIP.visited :
         LET r == ScanSubnets(childIP.netStatus[name], childIP.ipv6)
         IN IF r.found THEN ChildIPReturn(r.ip)
            ELSE childIP' = [childIP EXCEPT !.visited = @ \cup {name},
                                            !.ipv6 = r.ipv6]
    /\ UNCHANGED <<setupVars, reload, args, addr, prep, parse>>

\* The loop is over: the IPv6 address if there is one, "" otherwise.
ChildIPRangeDone ==
    /\ childIP.pc = "call"
    /\ ~childIP.IsSlirp4netns
    /\ childIP.visited = DOMAIN childIP.netStatus
    /\ ChildIPReturn(childIP.ipv6)
    /\ UNCHANGED <<setupVars, reload, args, addr, prep, parse>>

\* The function is called again for the same container and status.
ChildIPAgain ==
    /\ childIP.pc = "returned"
    /\ Len(childIP.results) < MaxRuns
    /\ childIP' = [childIP EXCEPT !.pc = "call"]
    /\ UNCHANGED <<setupVars, reload, args, addr, prep, parse>>

ChildIPNext ==
    \/ ChildIPSlirp4netns
    \/ ChildIPRange
    \/ ChildIPRangeDone
    \/ ChildIPAgain

ChildIPSpec == ChildIPInit /\ [][ChildIPNext]_vars

\* ------------------------------ setupSlirp4netns, up to the open log file

SlirpPath == "/usr/bin/slirp4netns"

\* return err, before anything of the IPv6 block and before cmd.Start().
PrepReturn(p, err) == [p EXCEPT !.pc = "returned", !.result = err]

\* setupSlirp4netns is called with a configured path or none, a list of
\* options, and a container whose namespace is configured before or after.
PrepInit ==
    /\ NoSetup
    /\ prep \in [pc: {"begin"}, path: {"", SlirpPath}, NoPivotRoot: {FALSE},
                 NetworkOptions: OptionLists, PostConfigureNetNS: BOOLEAN,
                 netOptions: {Nil}, slirpFeatures: {Nil}, cmdArgs: {Nil},
                 cloneNewNS: {FALSE}, execs: {<<>>}, pipes: {0},
                 logFile: {"none"}, result: {Nil}]
    /\ reload = NoCall
    /\ args = NoCall
    /\ addr = NoCall
    /\ parse = NoCall
    /\ childIP = NoCall

\* FindHelperBinary when no path is configured: a lookup, which can fail.
PrepFindHelperBinary ==
    /\ prep.pc = "begin"
    /\ \/ /\ prep.path # ""
          /\ prep' = [prep EXCEPT !.pc = "pipe"]
       \/ /\ prep.path = ""
          /\ \/ prep' = [prep EXCEPT !.pc = "pipe", !.path = SlirpPath]
             \/ prep' = PrepReturn(prep, Err("could not find slirp4netns", Slirp, <<>>))
    /\ UNCHANGED <<setupVars, reload, args, addr, parse, childIP>>

\* syncR, syncW, err := os.Pipe()
PrepPipe ==
    /\ prep.pc = "pipe"
    /\ \/ prep' = [prep EXCEPT !.pc = "parse", !.pipes = @ + 1]
       \/ prep' = PrepReturn(prep, Err("failed to open pipe", Slirp, <<>>))
    /\ UNCHANGED <<setupVars, reload, args, addr, parse, childIP>>

\* The binary is run with --help before the options are parsed.
PrepParseProbesFirst ==
    /\ prep.pc = "parse"
    /\ LET r == parseSlirp4netnsNetworkOptions(prep.NoPivotRoot, prep.NetworkOptions)
           p == [prep EXCEPT !.execs = Append(@, <<prep.path, "--help">>)]
       IN prep' = IF r.err # Nil THEN PrepReturn(p, r.err)
                  ELSE [p EXCEPT !.pc = "probe", !.netOptions = r.opts]
    /\ UNCHANGED <<setupVars, reload, args, addr, parse, childIP>>

\* netOptions, err := parseSlirp4netnsNetworkOptions(r, ctrNetworkSlipOpts)
PrepParse ==
    /\ prep.pc = "parse"
    /\ LET r == parseSlirp4netnsNetworkOptions(prep.NoPivotRoot, prep.NetworkOptions)
       IN prep' = IF r.err # Nil THEN PrepReturn(prep, r.err)
                  ELSE [prep EXCEPT !.pc = "probe", !.netOptions = r.opts]
    /\ UNCHANGED <<setupVars, reload, args, addr, parse, childIP>>

\* slirpFeatures, err := checkSlirpFlags(path): the binary is executed with
\* --help and its output searched for the flags.
PrepCheckSlirpFlags ==
    /\ prep.pc = "probe"
    /\ LET p == [prep EXCEPT !.execs = Append(@, <<prep.path, "--help">>)]
       IN \/ \E f \in FeatureSet : prep' = [p EXCEPT !.pc = "args", !.slirpFeatures = f]
          \/ prep' = PrepReturn(p, Err("checking slirp4netns binary", Slirp, <<>>))
    /\ UNCHANGED <<setupVars, reload, args, addr, parse, childIP>>

\* Faulty variant: the error of createBasicSlirp4netnsCmdArgs is dropped and
\* the command is built all the same.
PrepCommandIgnoresError ==
    /\ prep.pc = "args"
    /\ LET r  == createBasicSlirp4netnsCmdArgs(prep.netOptions, prep.slirpFeatures)
           a1 == r.cmdArgs \o << <<"-c", "-e", "3", "-r", "4">> >>
       IN prep' = [prep EXCEPT !.pc = "log", !.cmdArgs = a1, !.slirpFeatures = Nil]
    /\ UNCHANGED <<setupVars, reload, args, addr, parse, childIP>>

\* createBasicSlirp4netnsCmdArgs and the rest of the command: the fixed
\* arguments, the API socket, the container's sync pipe, exec.Command (which
\* starts nothing) and the clone flags.
PrepCommand ==
    /\ prep.pc = "args"
    /\ LET r  == createBasicSlirp4netnsCmdArgs(prep.netOptions, prep.slirpFeatures)
           a1 == r.cmdArgs \o << <<"-c", "-e", "3", "-r", "4">> >>
           a2 == IF Len(portMappings) > 0 /\ prep.netOptions.isSlirpHostForward
                 THEN Append(a1, <<"--api-socket", "apiSocket">>) ELSE a1
           a3 == IF ~prep.PostConfigureNetNS
                 THEN Append(a2, <<"--netns-type=path", "netns", "tap0">>)
                 ELSE Append(a2, <<"PID", "tap0">>)
       IN IF r.err # Nil
          THEN prep' = PrepReturn(prep, r.err)
          ELSE \/ prep' = [prep EXCEPT
                              !.pc = "log", !.cmdArgs = a3, !.slirpFeatures = Nil,
                              !.pipes = IF prep.PostConfigureNetNS THEN @ ELSE @ + 1,
                              !.cloneNewNS = ~prep.netOptions.noPivotRoot
                                             /\ prep.slirpFeatures.HasEnableSandbox]
               \/ /\ ~prep.PostConfigureNetNS
                  /\ prep' = PrepReturn(prep, Err("failed to create rootless network sync pipe",
                                                  Slirp, <<>>))
    /\ UNCHANGED <<setupVars, reload, args, addr, parse, childIP>>

\* logFile, err := os.Create(logPath)
PrepCreateLog ==
    /\ prep.pc = "log"
    /\ \/ prep' = [prep EXCEPT !.pc = "unlink", !.logFile = "created"]
       \/ prep' = PrepReturn(prep, Err("failed to open slirp4netns log file", Slirp, <<>>))
    /\ UNCHANGED <<setupVars, reload, args, addr, parse, childIP>>

\* os.Remove(logPath); then the function goes on with the parsed options.
PrepRemoveLog ==
    /\ prep.pc = "unlink"
    /\ \/ /\ prep' = [prep EXCEPT !.pc = "done", !.logFile = "unlinked"]
          /\ pc' = "setup"
          /\ netOptions' = [enableIPv6 |-> prep.netOptions.enableIPv6,
                            isSlirpHostForward |-> prep.netOptions.isSlirpHostForward,
                            cidr |-> prep.netOptions.cidr]
       \/ /\ prep' = PrepReturn(prep, Err("delete file", Slirp, <<>>))
          /\ UNCHANGED <<pc, netOptions>>
    /\ UNCHANGED <<portMappings, sysctl0, sysctl, retVars, wgVars, dadVars, procVars,
                   wfsVars, reapVars, monVars, timeVars, fwdVars, reload, args, addr, parse, childIP>>

PrepNext ==
    \/ PrepFindHelperBinary
    \/ PrepPipe
    \/ PrepParse
    \/ PrepCheckSlirpFlags
    \/ PrepCommand
    \/ PrepCreateLog
    \/ PrepRemoveLog
    \/ SetupBegin

PrepSpec == PrepInit /\ [][PrepNext]_vars

\* ------------------------------------------------------------ specification

Launcher ==
    \/ SetupBegin
    \/ SetupWaitNetns
    \/ SetupStart
    \/ SetupStartFailedDone
    \/ SetupStartFailedReturn
    \/ WaitForSync
    \/ SetupSlirpReadyDone
    \/ SetupAfterSync
    \/ SetupDeferred
    \/ RlkPrepare
    \/ RlkStart
    \/ RlkSynced
    \/ RlkDeferred
    \/ FwdBegin
    \/ WffRecv
    \/ WffFound
    \/ WffTimeout
    \/ FwdAfterWait
    \/ FwdLoopDone
    \/ FwdOpenPort
    \/ FwdClose

Monitor ==
    \/ MonLoopEnd
    \/ MonWait4
    \/ MonSendPanic
    \/ MonSleepDone

Next ==
    \/ Launcher
    \/ DadTask
    \/ Monitor
    \/ HelperStep
    \/ Tick

Spec == Init /\ [][Next]_vars

\* waitForSync alone, with the helper it waits for. The Go scheduler runs
\* the goroutine whenever it can take a step.
WfsNext ==
    \/ WaitForSync
    \/ HelperStep

WfsSpec == WfsInit /\ [][WfsNext]_vars /\ WF_vars(WaitForSync)

\* setupRootlessPortMappingViaSlirp alone, from its call to the return of
\* setupSlirp4netns, with its monitor and the helper.
FwdNext ==
    \/ FwdBegin
    \/ WffRecv
    \/ WffFound
    \/ WffTimeout
    \/ FwdAfterWait
    \/ FwdLoopDone
    \/ FwdOpenPort
    \/ FwdClose
    \/ SetupDeferred
    \/ Monitor
    \/ HelperStep
    \/ Tick

FwdSpec == FwdInit /\ [][FwdNext]_vars

RangeSpec == RangeInit /\ [][FwdNext]_vars

\* ------------------------------------------------------------- properties

\* cmd.Start() of slirp4netns has been called.
Started == sysctlAtStart # "none"

\* The DAD task runs and the sysctl file exists.
DadApplies == netOptions.enableIPv6 /\ sysctl0 # "absent"

DadReadOk == Len(dadOps) >= 1 /\ dadOps[1][2] = "nil"
DadWriteZeroOk == Len(dadOps) >= 2 /\ dadOps[2][2] = "nil"
RestoreAttempted == Len(dadOps) >= 3

\* C1 as stated: with IPv6 enabled and the sysctl file present, slirp4netns
\* is started only once the sysctl holds 0, whatever the outcome of the
\* task's file operations.
DadZeroAtStartAlways ==
    (Started /\ DadApplies) => sysctlAtStart = "0"

\* C1: with IPv6 enabled and the sysctl file present, slirp4netns is started
\* only after the DAD task has read the sysctl; the sysctl holds 0 at the
\* start when the read and the write of 0 both succeeded, and its original
\* value when either failed.
DadZeroAtStart ==
    (Started /\ DadApplies) =>
        /\ dadOps # <<>>
        /\ sysctlAtStart = IF DadReadOk /\ DadWriteZeroOk THEN "0" ELSE sysctl0

DadZeroAtStartWitness ==
    /\ DadApplies
    /\ sysctl0 = "1"
    /\ DadWriteZeroOk
    /\ sysctlAtStart = "0"
    /\ proc[Slirp] = "running"

\* The launcher knows how the start of slirp4netns ended: cmd.Start failed,
\* or waitForSync has returned.
ReadinessResolved ==
    /\ pc \notin {"setup", "wait_netns", "start"}
    /\ ~Watching(Slirp)

\* C2: the DAD task writes the original value back only after the readiness
\* of slirp4netns is resolved: cmd.Start failed or waitForSync has returned.
RestoreAfterReadiness ==
    (dadPc = "restore" \/ RestoreAttempted) => ReadinessResolved

RestoreAfterReadinessWitness ==
    /\ RestoreAttempted
    /\ dadOps[3] = <<"write", "nil", "1">>
    /\ sysctl = "1"
    /\ wfsErr[Slirp] # Nil

\* C3 as stated: when the sysctl file exists, the sysctl holds its original
\* value at the moment setupSlirp4netns returns, in every interleaving.
RestoredAtReturn ==
    (pc = "returned" /\ sysctl0 # "absent") => sysctl = sysctl0

HelperOutcome ==
    IF wfsErr[Slirp] # Nil THEN {wfsErr[Slirp]}
    ELSE IF ~havePortMapping THEN {Nil}
    ELSE IF netOptions.isSlirpHostForward
    THEN IF wffRes # "found"
         THEN {Err("waiting for slirp4nets to create the api socket file",
                  Slirp, <<wffRes>>)}
         ELSE {Nil} \cup {Err("add_hostfwd", Slirp, <<o>>) : o \in OpenOutcomes \ {"ok"}}
    ELSE {Nil, Err("rootlessport setup", Rlk, <<>>),
          Err("failed to start rootlessport process", Rlk, <<>>)}
         \cup {e \in {result} : e # Nil /\ e[2] = Rlk /\ proc[Rlk] # "unstarted"}

DadFileOpFailed == dadErr \in {"readerr", "write0err", "restoreerr"}

\* C5: no error of the DAD task changes the outcome of setupSlirp4netns: what
\* it returns follows from the helpers alone, and a failed file operation of
\* the task never leaves the launcher waiting for netnsReady.
DadErrorsIgnored ==
    /\ pc = "deferred" => result \in HelperOutcome
    /\ (pc = "returned" /\ proc[Slirp] = "unstarted") =>
          result = Err("failed to start slirp4netns process", Slirp, <<>>)
    /\ (DadFileOpFailed /\ dadPc \in {"warn", "exit"}) => netnsReadyWg = 0

DadErrorsIgnoredWitness ==
    /\ pc = "returned"
    /\ result = Nil
    /\ dadWarned
    /\ dadErr = "write0err"
    /\ sysctlAtStart = "1"

\* waitForSync has just returned to its call site.
Synced == pc \in {"slirp_synced", "rlk_synced"}

Last(seq) == seq[Len(seq)]
Elems(seq) == {seq[i] : i \in 1..Len(seq)}

\* C6 as stated: data read gives success; a normal exit gives an error with
\* the whole log from offset zero; a signal gives 'killed by signal'; no
\* state change never ends the wait; success only after a byte was read.
WfsResultAsStated ==
    Synced =>
        LET h == wfsCmd
            e == wfsErr[h]
            o == wfsObs[h]
        IN /\ Last(o) = "data" => e = Nil
           /\ "exited" \in Elems(o) => e = Err("failed", h, logFile[h])
           /\ Last(o) = "signaled" => e = Err("killed by signal", h, <<>>)
           /\ (e # Nil /\ proc[h] # "reaped") => Last(o) = "ioerr"
           /\ e = Nil => (pipe[h] = "read" /\ Last(o) = "data")

\* C6: data read gives success; a normal exit gives an error with the whole
\* log from offset zero when the seek and the read of the log succeed, the
\* read error when the read fails, and no log content when the seek fails
\* (the read then starts at the end, where the child's writes left the
\* offset); a signal gives 'killed by signal'; no state change never ends the
\* wait; success only after a byte was read.
WfsResult ==
    Synced =>
        LET h == wfsCmd
            e == wfsErr[h]
            o == wfsObs[h]
        IN /\ Last(o) = "data" => e = Nil
           /\ "exited" \in Elems(o) =>
                 e = IF "readallerr" \in Elems(o) THEN Err("failed: read error", h, <<>>)
                     ELSE IF "seekerr" \in Elems(o) THEN Err("failed", h, <<>>)
                     ELSE Err("failed", h, logFile[h])
           /\ Last(o) = "signaled" => e = Err("killed by signal", h, <<>>)
           /\ (e # Nil /\ proc[h] # "reaped") => Last(o) = "ioerr"
           /\ e = Nil => (pipe[h] = "read" /\ Last(o) = "data")

WfsResultWitness ==
    /\ pc = "slirp_synced"
    /\ wfsObs[Slirp] = <<"exited", "log">>
    /\ logFile[Slirp] # <<>>
    /\ wfsErr[Slirp] = Err("failed", Slirp, logFile[Slirp])

\* waitForSync returned for a reason other than an I/O error only when the
\* child had written a byte or its death had been collected; and no second
\* deadline expires on a dead child.
WfsNoOverallTimeout ==
    /\ (Synced /\ Last(wfsObs[wfsCmd]) # "ioerr") =>
          (pipe[wfsCmd] = "read" \/ proc[wfsCmd] = "reaped")
    /\ expiredAfterDeath <= 1

\* C7: waitForSync has no overall timeout: without an I/O error it does not
\* return while the child is alive and has written nothing, however many
\* deadlines expire; once the child has written a byte or died it returns,
\* a death being detected at the first deadline that expires after it.
WfsReturnsOnlyOnChange ==
    /\ []WfsNoOverallTimeout
    /\ \A h \in Helpers :
          (Watching(h) /\ (pipe[h] = "byte" \/ Dead(h))) ~> ~Watching(h)

WfsReturnsOnlyOnChangeWitness ==
    /\ pc = "wfs_deadline"
    /\ polls = MaxPolls
    /\ proc[wfsCmd] = "running"
    /\ pipe[wfsCmd] = "empty"

\* Registered with the reaper and released exactly when started.
ReapedIffStarted ==
    /\ \A h \in Helpers : reaper[h] <= 1 /\ released[h] <= 1
    /\ pc = "returned" =>
          \A h \in Helpers :
             IF proc[h] = "unstarted" THEN reaper[h] = 0 /\ released[h] = 0
                                      ELSE reaper[h] = 1 /\ released[h] = 1

\* The step in which a helper dies is no step of the setup call.
NotKilledBySetup ==
    (\E h \in Helpers : proc[h] = "running" /\ Dead(h)') =>
        /\ pc' = pc
        /\ monPc' = monPc
        /\ dadPc' = dadPc
        /\ reaper' = reaper

\* C8: when setupSlirp4netns has returned, each helper that was started is
\* registered with the reaper exactly once and its handle released, a helper
\* that was not started is not registered, and no step of the setup call
\* ends a helper.
ReapedNotKilled == []ReapedIffStarted /\ [][NotKilledBySetup]_vars

ReapedNotKilledWitness ==
    /\ pc = "returned"
    /\ result # Nil
    /\ proc[Slirp] # "unstarted"
    /\ proc[Rlk] # "unstarted"
    /\ reaper = [h \in Helpers |-> 1]
    /\ released = [h \in Helpers |-> 1]

\* The commands of one (mapping, protocol) pair: the offsets in ascending
\* order.
RangeCmds(port, proto) ==
    [k \in 1..port.Range |->
        [Execute |-> "add_hostfwd", Proto |-> proto,
         HostAddr |-> IF port.HostIP = "" THEN "0.0.0.0" ELSE port.HostIP,
         HostPort |-> (port.HostPort + (k - 1)) % PortMod,
         GuestPort |-> (port.ContainerPort + (k - 1)) % PortMod]]

RECURSIVE ProtoCmds(_, _)
ProtoCmds(port, protos) ==
    IF protos = <<>> THEN <<>>
    ELSE RangeCmds(port, Head(protos)) \o ProtoCmds(port, Tail(protos))

RECURSIVE ExpectedCmds(_)
ExpectedCmds(ms) ==
    IF ms = <<>> THEN <<>>
    ELSE ProtoCmds(Head(ms), Split(Head(ms).Protocol)) \o ExpectedCmds(Tail(ms))

RECURSIVE CmdCount(_)
CmdCount(ms) ==
    IF ms = <<>> THEN 0
    ELSE Len(Split(Head(ms).Protocol)) * Head(ms).Range + CmdCount(Tail(ms))

\* Every command so far has succeeded and the loops are over.
AllForwarded == pc = "fwd_close" /\ result = Nil

\* C9: when every command succeeds the add_hostfwd commands issued are one
\* per (mapping, protocol, offset), mappings in order, protocols in listed
\* order, offsets ascending, an empty host IP sent as 0.0.0.0; their number
\* is the sum of protocols x range; for tcp,udp 8080 -> 80 with range 2 they
\* are tcp 8080->80, tcp 8081->81, udp 8080->80, udp 8081->81.
HostfwdCommands ==
    /\ pc = "fwd_loop" =>
          issued = SubSeq(ExpectedCmds(portMappings), 1, Len(issued))
    /\ AllForwarded =>
          /\ issued = ExpectedCmds(portMappings)
          /\ Len(issued) = CmdCount(portMappings)
          /\ \A k \in 1..Len(issued) : issued[k].HostAddr # ""
    /\ (AllForwarded /\ Len(portMappings) = 1 /\ portMappings[1].HostPort = 8080) =>
          issued = << ApiCmd(<<"tcp">>, "0.0.0.0", 8080, 80),
                      ApiCmd(<<"tcp">>, "0.0.0.0", 8081, 81),
                      ApiCmd(<<"udp">>, "0.0.0.0", 8080, 80),
                      ApiCmd(<<"udp">>, "0.0.0.0", 8081, 81) >>

HostfwdCommandsWitness ==
    /\ AllForwarded
    /\ Len(portMappings) = 2
    /\ portMappings[1].HostPort = 5353
    /\ portMappings[2].HostPort = 8080
    /\ Len(issued) = 5
    /\ issued[1].Proto = <<"udp">>
    /\ issued[5].HostPort = 8081

\* C10 as stated: for the whole duration of the wait for the socket file the
\* monitor keeps polling the helper, so that an exit at any moment of the
\* wait is observed and ends the wait: while the wait has time left, Wait4
\* has not failed and the helper's exit has not been collected, the monitor
\* is polling or about to send.
MonitorPollsWholeWait ==
    (pc = "waitforfile" /\ wffLeft > 0 /\ ~monBroke /\ proc[Slirp] # "reaped") =>
        monPc \in {"wait4", "send"}

\* An add_hostfwd command has failed.
HostfwdFailed == result # Nil /\ result[1] = "add_hostfwd"

\* After a failed command: what was sent is the start of the expected list,
\* every command an add_hostfwd, nothing else.
FailedAfterPrefix ==
    HostfwdFailed =>
        /\ pc \in {"fwd_close", "deferred", "returned", "crashed"}
        /\ Len(issued) <= Len(ExpectedCmds(portMappings))
        /\ issued = SubSeq(ExpectedCmds(portMappings), 1, Len(issued))
        /\ \A k \in 1..Len(issued) : issued[k].Execute = "add_hostfwd"
        /\ ~Sent(result[3][1]) => Len(issued) < Len(ExpectedCmds(portMappings))

\* A step sends at most one command; once a command has failed no step sends
\* anything; the failing step itself leaves the loops.
NothingSentAfterFailure ==
    /\ Len(issued') <= Len(issued) + 1
    /\ HostfwdFailed => issued' = issued
    /\ (pc = "fwd_loop" /\ result' # result) => pc' = "fwd_close"

\* C11: when an add_hostfwd command fails, the error is returned at once: no
\* later command is issued, the failed one is not retried, and nothing is
\* sent to undo the commands that succeeded.
HostfwdFailFast == []FailedAfterPrefix /\ [][NothingSentAfterFailure]_vars

HostfwdFailFastWitness ==
    /\ pc = "fwd_close"
    /\ result = Err("add_hostfwd", Slirp, <<"errorkey">>)
    /\ Len(issued) = 2
    /\ Len(ExpectedCmds(portMappings)) = 5

\* The call of reloadRootlessRLKPortMapping has returned.
Reloaded == reload.pc = "returned"

\* C12: with at least one port mapping and connect, write and read all
\* successful, the reload succeeds exactly when the bytes read up to the end
\* of the stream are OK, and otherwise returns an error whose detail is the
\* answer as it was read; there is one connection attempt and one request,
\* never a second, and the connection is closed on every path.
ReloadResult ==
    /\ reload.pc # "none" =>
          /\ reload.dials <= 1
          /\ reload.requests <= 1
          /\ reload.closes <= reload.dials
    /\ Reloaded =>
          /\ ~reload.connOpen
          /\ reload.closes = (IF "connected" \in Elems(reload.steps) THEN 1 ELSE 0)
          /\ reload.steps = <<"connected", "written", "read">> =>
                /\ reload.dials = 1
                /\ reload.requests = 1
                /\ reload.b = reload.reply
                /\ reload.result = Nil <=> reload.reply = <<"O", "K">>
                /\ reload.result # Nil =>
                      reload.result = Err("port reloading failed", Rlk, reload.reply)

ReloadResultWitness ==
    /\ Reloaded
    /\ reload.steps = <<"connected", "written", "read">>
    /\ reload.reply = <<"O", "K", "\n">>
    /\ reload.result = Err("port reloading failed", Rlk, <<"O", "K", "\n">>)
    /\ reload.closes = 1

NotSupportedErrors ==
    { Err(m, Slirp, <<>>) : m \in {"cidr not supported", "enable_ipv6 not supported",
                                   "outbound_addr not supported",
                                   "outbound_addr6 not supported"} }

\* C13 as stated: an option with a non-default value (mtu other than the
\* default, cidr, outboundAddr, outboundAddr6) whose flag needs a feature
\* that is missing makes createBasicSlirp4netnsCmdArgs return a 'not
\* supported' error, never an argument vector without the flag.
NoSilentOmission ==
    args.pc = "returned" =>
        LET o == args.options
            f == args.features
            requested == \/ o.mtu # slirp4netnsMTU /\ ~f.HasMTU
                         \/ o.cidr # "" /\ ~f.HasCIDR
                         \/ o.outboundAddr # "" /\ ~f.HasOutboundAddr
                         \/ o.outboundAddr6 # "" /\ ~(f.HasOutboundAddr /\ f.HasIPv6)
        IN requested => args.out.err \in NotSupportedErrors

\* The sum of the subnet's base address and the offset as a plain integer,
\* in base 256, most significant digit first: five digits, the first one the
\* carry out of 32 bits.
PlainSum ==
    LET b  == addr.subnet.IP
        d4 == b[4] + addr.offset
        d3 == b[3] + (d4 \div 256)
        d2 == b[2] + (d3 \div 256)
        d1 == b[1] + (d2 \div 256)
    IN <<d1 \div 256, d1 % 256, d2 % 256, d3 % 256, d4 % 256>>

\* The sum does not fit in 32 bits.
SumOverflows == PlainSum[1] > 0

\* The sum as an address, when it fits.
SumIP == Tail(PlainSum)

\* The sum is an address of the subnet: the subnet's base has zero host
\* bits, so the sum is inside when the offset is smaller than the subnet's
\* size.
SumInSubnet == ~SumOverflows /\ addr.offset < 2 ^ (32 - addr.subnet.ones)

OverflowErr == Err("integer overflow while calculating ip address offset", "addToIP", <<>>)

\* C14 as stated: for every valid subnet and offset 2, 3 or 100 addToIP
\* returns an address of the subnet equal to base plus offset, and an
\* overflow error when the sum exceeds 2^32-1.
AddToIPAlwaysMember ==
    addr.pc = "returned" =>
        IF SumOverflows
        THEN addr.out.err = OverflowErr
        ELSE /\ addr.out.err = Nil
             /\ addr.out.ip = SumIP
             /\ SumInSubnet

\* C14: for every valid subnet and offset 2, 3 or 100: when the sum of base
\* and offset exceeds 2^32-1 addToIP returns an overflow error; when the sum
\* lies outside the subnet it returns a 'not within given subnet' error;
\* otherwise it returns the sum, which is an address of the subnet. It never
\* returns a wrapped-around address or an address outside the subnet.
AddToIPMemberOrError ==
    addr.pc = "returned" =>
        /\ IF SumOverflows
           THEN addr.out.err = OverflowErr
           ELSE IF ~SumInSubnet
           THEN /\ addr.out.err # Nil
                /\ addr.out.err # OverflowErr
           ELSE /\ addr.out.err = Nil
                /\ addr.out.ip = SumIP
        /\ addr.out.err = Nil <=> addr.out.ip # Nil
        /\ addr.out.ip # Nil => (addr.out.ip = SumIP /\ SumInSubnet)

AddToIPMemberOrErrorWitness ==
    /\ addr.pc = "returned"
    /\ addr.subnet = [IP |-> <<10, 0, 2, 0>>, ones |-> 24]
    /\ addr.offset = 100
    /\ addr.out = [ip |-> <<10, 0, 2, 100>>, err |-> Nil]

\* The errors of parseSlirp4netnsNetworkOptions: a malformed or unknown
\* option string.
IsParseError(e) ==
    /\ e # Nil
    /\ e[1] \in {"unknown option for slirp4netns", "invalid cidr",
                 "unknown port_handler for slirp4netns",
                 "invalid value of allow_host_loopback for slirp4netns",
                 "invalid value of enable_ipv6 for slirp4netns",
                 "invalid outbound_addr", "invalid outbound_addr6", "invalid mtu"}

\* setupSlirp4netns has returned a configuration error.
ReturnedParseError == prep # NoCall /\ prep.pc = "returned" /\ IsParseError(prep.result)
ReturnedFeatureError ==
    prep # NoCall /\ prep.pc = "returned" /\ prep.result \in NotSupportedErrors

\* No log file, no DAD task, no start of the helper.
NothingStarted ==
    /\ prep.logFile = "none"
    /\ pc = "none"
    /\ dadPc = "unstarted"
    /\ proc[Slirp] = "unstarted"
    /\ sysctlAtStart = "none"

\* C15 as stated: when setupSlirp4netns returns a configuration error (a
\* malformed or unknown option, or an option that needs a feature the binary
\* lacks), no binary has been executed, neither for the capability probe nor
\* as the helper, no log file has been created and the DAD task has not been
\* started.
ConfigErrorBeforeAnyProcess ==
    (ReturnedParseError \/ ReturnedFeatureError) =>
        prep.execs = <<>> /\ NothingStarted

\* C15, amended: a malformed or unknown option is reported before any binary
\* is executed; a missing feature is reported after the capability probe has
\* executed the binary once with --help, and nothing else; in both cases no
\* log file has been created and neither the helper nor the DAD task has been
\* started.
ConfigErrorBeforeHelper ==
    /\ ReturnedParseError => prep.execs = <<>> /\ NothingStarted
    /\ ReturnedFeatureError =>
           prep.execs = << <<prep.path, "--help">> >> /\ NothingStarted

\* A missing feature has been reported, after the probe.
ConfigErrorBeforeHelperWitness ==
    /\ ReturnedFeatureError
    /\ prep.result = Err("cidr not supported", Slirp, <<>>)
    /\ Len(prep.execs) = 1

\* setupRootlessPortMappingViaRLK has chosen what it returns and its buffer
\* of rootlessport's standard output is still there.
RlkChosen == pc = "rlk_deferred"

BarriersReleasedOnce ==
    /\ netnsReadyWg \in {0, 1}
    /\ slirpReadyWg \in {0, 1}
    /\ dadPc = "exit" => netnsReadyWg = 0
    /\ pc = "returned" => slirpReadyWg = 0

\* setupRootlessPortMappingViaSlirp has returned: its deferred close(chWait)
\* has run.
ViaSlirpReturned == chWait = "closed"

\* C18 as stated: no task outlives its spawner: the DAD task has ended when
\* setupSlirp4netns returns, and the liveness monitor has ended when
\* setupRootlessPortMappingViaSlirp returns.
NoTaskOutlivesSpawner ==
    /\ pc = "returned" => dadPc \in {"unstarted", "exit"}
    /\ ViaSlirpReturned => monPc \in {"unstarted", "done", "panic"}

\* C19 as stated: the monitor never sends on chWait after it has been
\* closed and is never left blocked in a send when it is closed: no
\* send-on-closed-channel panic is reachable.
NoSendOnClosedChannel ==
    /\ monPc # "panic"
    /\ ~(monPc = "send" /\ chWait = "closed")

\* C20 as stated: a mapping with range N expands to exactly N port pairs,
\* sequential on both sides: the i-th command (0 <= i < N) carries host port
\* HostPort + i and guest port ContainerPort + i as plain integer sums, never
\* a value wrapped modulo 2^16, and the loop ends after N iterations.
RangePairsPlainSums ==
    (pc \in {"fwd_loop", "fwd_close"} /\ Len(portMappings) = 1) =>
        /\ Len(issued) <= portMappings[1].Range
        /\ AllForwarded => Len(issued) = portMappings[1].Range
        /\ \A k \in 1..Len(issued) :
              /\ issued[k].HostPort = portMappings[1].HostPort + (k - 1)
              /\ issued[k].GuestPort = portMappings[1].ContainerPort + (k - 1)

\* parseSlirp4netnsNetworkOptions has returned options and no error.
Parsed == parse # NoCall /\ parse.pc = "returned" /\ parse.err = Nil

\* The options carry the value of the entry o.
Carries(opts, o) ==
    CASE o[1] = "cidr" -> opts.cidr = o[2]
      [] o[1] = "port_handler" -> opts.isSlirpHostForward = (o[2] = "slirp4netns")
      [] o[1] = "allow_host_loopback" -> opts.disableHostLoopback = (o[2] = "false")
      [] o[1] = "enable_ipv6" -> opts.enableIPv6 = (o[2] = "true")
      [] o[1] = "outbound_addr" -> opts.outboundAddr = o[2]
      [] o[1] = "outbound_addr6" -> opts.outboundAddr6 = o[2]
      [] o[1] = "mtu" -> o[2] = "1500" /\ opts.mtu = 1500
      [] OTHER -> FALSE

\* The global options followed by the container's.
Merged == parse.NetworkCmdOptions \o parse.extraOptions

\* C21 as stated: over the merged sequence a later entry never overrides an
\* earlier entry with the same key: the options returned carry the value of
\* the first occurrence of every key.
FirstOccurrenceWins ==
    Parsed =>
        \A k \in 1..Len(Merged) :
            (\A j \in 1..(k - 1) : Merged[j][1] # Merged[k][1]) =>
                Carries(parse.opts, Merged[k])

\* C21, amended: over the merged sequence (global options, then the
\* container's) a later entry overrides an earlier entry with the same key:
\* the options returned carry the value of the last occurrence of every
\* key, and the default of every key that does not occur.
LastOccurrenceWins ==
    Parsed =>
        /\ \A k \in 1..Len(Merged) :
              (\A j \in (k + 1)..Len(Merged) : Merged[j][1] # Merged[k][1]) =>
                  Carries(parse.opts, Merged[k])
        /\ LET keys == {Merged[k][1] : k \in 1..Len(Merged)}
               d == DefaultOpts(parse.NoPivotRoot)
           IN /\ "cidr" \notin keys => parse.opts.cidr = d.cidr
              /\ "port_handler" \notin keys =>
                    parse.opts.isSlirpHostForward = d.isSlirpHostForward
              /\ "allow_host_loopback" \notin keys =>
                    parse.opts.disableHostLoopback = d.disableHostLoopback
              /\ "enable_ipv6" \notin keys => parse.opts.enableIPv6 = d.enableIPv6
              /\ "outbound_addr" \notin keys => parse.opts.outboundAddr = d.outboundAddr
              /\ "outbound_addr6" \notin keys => parse.opts.outboundAddr6 = d.outboundAddr6
              /\ "mtu" \notin keys => parse.opts.mtu = d.mtu
              /\ parse.opts.noPivotRoot = d.noPivotRoot

\* The container's enable_ipv6=false after the global enable_ipv6=true.
LastOccurrenceWinsWitness ==
    /\ Parsed
    /\ parse.NetworkCmdOptions = << <<"enable_ipv6", "true">> >>
    /\ parse.extraOptions = << <<"enable_ipv6", "false">> >>
    /\ parse.opts.enableIPv6 = FALSE

\* The data-model invariant of the options: outboundAddr6 set => enableIPv6.
Outbound6NeedsIPv6(opts) == opts.outboundAddr6 # "" => opts.enableIPv6

\* C22 as stated: every options value that parseSlirp4netnsNetworkOptions
\* returns without error satisfies the invariant outboundAddr6 set =>
\* enableIPv6, for every sequence of valid option strings.
ParsedOptionsInvariant ==
    (prep # NoCall /\ prep.netOptions # Nil) => Outbound6NeedsIPv6(prep.netOptions)

\* C22, amended: the parser returns outbound_addr6 with enable_ipv6=false
\* without error; the invariant is enforced by
\* createBasicSlirp4netnsCmdArgs: options that break it never yield an
\* argument vector, setupSlirp4netns returns one of the builder's errors for
\* them after the probe, and every command that is built comes from options
\* that satisfy it.
BuiltOptionsInvariant ==
    (prep # NoCall /\ prep.netOptions # Nil) =>
        /\ prep.cmdArgs # Nil => Outbound6NeedsIPv6(prep.netOptions)
        /\ ~Outbound6NeedsIPv6(prep.netOptions) =>
              /\ prep.pc \in {"probe", "args", "returned"}
              /\ prep.logFile = "none"
              /\ pc = "none"
              /\ (prep.pc = "returned" /\ prep.slirpFeatures # Nil) =>
                    prep.result \in NotSupportedErrors \cup
                        { Err("enable_ipv6=true is required for outbound_addr6",
                              Slirp, <<>>) }

\* The parser let outbound_addr6 with enable_ipv6=false through and the
\* builder refused it.
BuiltOptionsInvariantWitness ==
    /\ prep # NoCall
    /\ prep.pc = "returned"
    /\ prep.NetworkOptions = << <<"outbound_addr6", "fd00::1">>, <<"enable_ipv6", "false">> >>
    /\ prep.netOptions # Nil
    /\ prep.netOptions.outboundAddr6 = "fd00::1"
    /\ ~prep.netOptions.enableIPv6
    /\ prep.result = Err("enable_ipv6=true is required for outbound_addr6", Slirp, <<>>)

\* C23 as stated: getRootlessPortChildIP is a pure function of the network
\* mode and the network status: for the same mode and the same attachments
\* every call returns the same child IP, whatever the order in which the
\* status map is iterated, also when several attachments carry IPv4
\* addresses or several carry only IPv6 addresses.
ChildIPDeterministic ==
    childIP # NoCall =>
        \A a, b \in 1..Len(childIP.results) : childIP.results[a] = childIP.results[b]

====
